---- MODULE Spec2Model ----
(***************************************************************************)
(* A model of the streaming core of the DevMind multi-provider LLM SDK:    *)
(* the SSE and NDJSON wire parsers, the StreamProcessor, mergeStreams,     *)
(* executeToolWithTimeout and the agent's tool loop.                       *)
(*                                                                         *)
(* Text is a sequence of one-character strings.  The bytes of a response   *)
(* body are ASCII, for which TextDecoder.decode(value, {stream: true}) is  *)
(* the byte-to-character map, whatever the chunking.                       *)
(***************************************************************************)
EXTENDS Integers, Sequences, FiniteSets, TLC

VARIABLES
    parser,      \* which generator runs: "sse" (parseSSE), "ndjson" (parseNDJSON), "none"
    doc,         \* the response body: [lines, eol, closed], see Docs
    rest,        \* the bytes of the body that reader.read() has not delivered yet
    buffer,      \* let buffer = ''
    eventLines,  \* let eventLines: string[] = []   (parseSSE only)
    out,         \* the events the generator has yielded to its consumer
    parsedLog,   \* the texts handed to JSON.parse, in order
    doneAt,      \* Len(out) when flushEvent first met the payload [DONE]; -1 before
    cut,         \* some read ended inside a line, with more of the body to come
    pc,          \* "init" | "reading" | "done" | "returned" | "failed"
    locked       \* the body reader's lock is held by the generator

wireVars == <<parser, doc, rest, buffer, eventLines, out, parsedLog, doneAt, cut, pc, locked>>

VARIABLES
    textBuffer,      \* StreamProcessor.textBuffer
    thinkingBuffer,  \* StreamProcessor.thinkingBuffer
    toolCallBuffer,  \* StreamProcessor.toolCallBuffer: the Map's entries <<[id, partial]>>, in insertion order
    usage,           \* StreamProcessor.usage: <<>> for null, <<u>> for the snapshot u
    callbacks,       \* the calls made to the StreamOptions callbacks, and reset() marks
    history          \* the chunks given to processChunk, and reset() marks

spVars == <<textBuffer, thinkingBuffer, toolCallBuffer, usage, callbacks, history>>

VARIABLES
    streams,   \* mergeStreams(...streams): the items of each source, as given
    cursor,    \* how many of its items each source has handed to a next() call
    pending,   \* const pending = new Map(): for each index, the promise's state
    index,     \* the index of the promise that won the last race
    merged,    \* the items mergeStreams has yielded
    mPc        \* "init" | "race" (awaiting Promise.race) | "yielded" | "done"

mergeVars == <<streams, cursor, pending, index, merged, mPc>>

VARIABLES
    aPc,            \* sendMessageToAgent: "none" | "requesting" (awaiting chat.sendMessage)
                    \*   | "executing" (awaiting Promise.all) | "returned" (return finalResponse)
                    \*   | "caught" (the return of the catch block)
    sent,           \* the messages given to chat.sendMessage, in order
    response,       \* let response: <<>> before the first one, <<r>> with the last one received
    finalResponse,  \* let finalResponse = ""
    streamed,       \* the texts given to onStream
    batch,          \* the functionCalls of the response in hand, each with its callback's state
    toolLog,        \* the calls made to onToolStart and onToolEnd
    returned,       \* <<>> while the promise is pending, <<v>> once it resolved to v
    elapsed         \* ms since the batch now awaited was dispatched; 0 when none is awaited

agentVars == <<aPc, sent, response, finalResponse, streamed, batch, toolLog, returned, elapsed>>

VARIABLES
    xPc,        \* executeToolWithTimeout: "none" | "called" | "racing" (Promise.race returned)
                \*   | "ended" (the function ended without a race)
    tool,       \* the ToolDefinition given: [name, execute], execute saying whether it has one
    toolArgs,   \* the args given
    execution,  \* the promise of tool.execute(args): "absent" | "pending" | "resolved"
                \*   | "rejected" | "threw" (execute threw before it returned a promise)
    timeout,    \* the timeout promise: "unset" | "armed" | "fired"
    waited,     \* ms since the call
    settlement  \* the promise returned: <<>> while pending, <<[kind, value]>> once settled

execVars == <<xPc, tool, toolArgs, execution, timeout, waited, settlement>>

VARIABLES
    localFiles,      \* FileSyncService.localFiles: for each path <<>> or <<entry>>
    remoteFiles,     \* FileSyncService.remoteFiles, likewise
    pendingChanges,  \* FileSyncService.pendingChanges: the Map's entries, in insertion order
    syncTimer,       \* FileSyncService.syncTimer: "null" | "armed" | "fired"
    isSyncing,       \* FileSyncService.isSyncing
    syncRun,         \* the sync() call in progress, suspended at its await: <<>> or
                     \*   <<[awaited, local, paths, result]>>
    syncEvents,      \* the sync-start and sync-complete events emitted
    refusal,         \* what the last sync() call made during a sync returned; <<>> if none
    remoteStore,     \* the remote copies: what writeRemote has written, for each path
    tracked          \* the number of trackLocalChange calls made

syncVars == <<localFiles, remoteFiles, pendingChanges, syncTimer, isSyncing, syncRun,
              syncEvents, refusal, remoteStore, tracked>>

VARIABLES
    iframe,          \* CodeServerBridge.iframe: "null", or the element given to initialize:
                     \*   "window" (it has a contentWindow) | "detached" (it has none)
    listening,       \* whether initialize has registered handleMessage on the window
    eventListeners,  \* the event types a listener was registered for with on()
    editorState,     \* CodeServerBridge.editorState
    messageQueue,    \* CodeServerBridge.messageQueue
    isReady,         \* CodeServerBridge.isReady
    running,         \* CodeServerBridge.status.running
    posted,          \* the messages given to iframe.contentWindow.postMessage, in order
    sendLog,         \* the messages given to sendMessage, in order, and by whom
    called,          \* the number of listener calls made by emit
    handled,         \* the number of window messages delivered to handleMessage
    lastOrigin       \* the origin of the last of them; <<>> if none

bridgeVars == <<iframe, listening, eventListeners, editorState, messageQueue, isReady,
                running, posted, sendLog, called, handled, lastOrigin>>

vars == <<wireVars, spVars, mergeVars, agentVars, execVars, syncVars, bridgeVars>>

\* What the actions of one component leave alone: the other components
notWire == <<spVars, mergeVars, agentVars, execVars, syncVars, bridgeVars>>
notSP == <<wireVars, mergeVars, agentVars, execVars, syncVars, bridgeVars>>
notMerge == <<wireVars, spVars, agentVars, execVars, syncVars, bridgeVars>>
notAgent == <<wireVars, spVars, mergeVars, execVars, syncVars, bridgeVars>>
notExec == <<wireVars, spVars, mergeVars, agentVars, syncVars, bridgeVars>>
notSync == <<wireVars, spVars, mergeVars, agentVars, execVars, bridgeVars>>
notBridge == <<wireVars, spVars, mergeVars, agentVars, execVars, syncVars>>

----------------------------------------------------------------------------
(* Bounds *)

MaxLines == 3

MaxChunks == 4

NumSources == 2

MaxItems == 2

MaxRounds == 3

MaxCalls == 2

MaxTicks == 3

MaxChanges == 3

MaxSyncs == 2

MaxMessages == 3

MaxSends == 3

\* executeToolWithTimeout(tool, args, timeoutMs = 10000)
timeoutMs == 10000

\* The clock advances in steps of half the timeout
TickMs == timeoutMs \div 2

----------------------------------------------------------------------------
(* Characters and strings *)

LF == "\n"
CR == "\r"

\* The characters String.prototype.trim/trimStart strip and JSON.parse skips,
\* among the characters of the modelled bodies.
WhiteSpace == {" ", "\t", LF, CR}

RECURSIVE Concat(_)
Concat(ss) == IF ss = <<>> THEN <<>> ELSE Head(ss) \o Concat(Tail(ss))

Last(s) == s[Len(s)]

Front(s) == SubSeq(s, 1, Len(s) - 1)

\* s.split('\n'): always at least one piece.
RECURSIVE Split(_)
Split(s) ==
    IF \A i \in 1..Len(s) : s[i] # LF
    THEN <<s>>
    ELSE LET i == CHOOSE k \in 1..Len(s) : s[k] = LF /\ \A j \in 1..(k - 1) : s[j] # LF
         IN  <<SubSeq(s, 1, i - 1)>> \o Split(SubSeq(s, i + 1, Len(s)))

\* Mutant of StripCR: the CR stays on the line.
StripCRKept(line) == line

\* line.replace(/\r$/, ''): one trailing CR is removed.
StripCR(line) ==
    IF Len(line) > 0 /\ Last(line) = CR THEN Front(line) ELSE line

\* s.startsWith(p)
StartsWith(s, p) == Len(s) >= Len(p) /\ SubSeq(s, 1, Len(p)) = p

\* s.trimStart()
RECURSIVE TrimStart(_)
TrimStart(s) ==
    IF s # <<>> /\ Head(s) \in WhiteSpace THEN TrimStart(Tail(s)) ELSE s

\* s.trim() is a non-empty string
TrimNonEmpty(s) == \E i \in 1..Len(s) : s[i] \notin WhiteSpace

\* lines.join('\n')
RECURSIVE Join(_)
Join(ss) ==
    IF ss = <<>> THEN <<>>
    ELSE IF Len(ss) = 1 THEN ss[1]
    ELSE ss[1] \o <<LF>> \o Join(Tail(ss))

NoWS(c) == c \notin WhiteSpace

\* The JSON texts over the characters { } [ ] and white space: {} , [] and
\* arrays of one element, nested.  Every token is one character, so white
\* space may stand between any two of them.
RECURSIVE JSONValue(_)
JSONValue(t) ==
    \/ t = <<"{", "}">>
    \/ t = <<"[", "]">>
    \/ /\ Len(t) > 2
       /\ Head(t) = "["
       /\ Last(t) = "]"
       /\ JSONValue(SubSeq(t, 2, Len(t) - 1))

\* JSON.parse(s): ok is FALSE when it throws; val is the value, written as
\* its white-space-free text (equal values have equal texts).
JSONParse(s) ==
    LET t == SelectSeq(s, NoWS)
    IN  IF JSONValue(t) THEN [ok |-> TRUE, val |-> t] ELSE [ok |-> FALSE, val |-> <<>>]

DataPrefix == <<"d", "a", "t", "a", ":">>
DoneMarker == <<"[", "D", "O", "N", "E", "]">>


----------------------------------------------------------------------------
(* The wire parsers: parseSSE and parseNDJSON *)

\* The locals of a running generator, with the consumer's patience: left is
\* the number of events the consumer still takes before it abandons the
\* generator (-1: it takes them all); stopped says it has abandoned it.
GenState(left) ==
    [eventLines |-> eventLines, out |-> out, parsedLog |-> parsedLog,
     doneAt |-> doneAt, left |-> left, stopped |-> FALSE]

\* yield ev: the consumer receives ev, and either asks for the next event or
\* calls return(), which ends the generator at this yield.
Yield(st, ev) ==
    [st EXCEPT !.out = Append(@, ev),
               !.left = IF @ > 0 THEN @ - 1 ELSE @,
               !.stopped = (st.left = 1)]

\* Mutant of DataLines: a comment line that reaches flushEvent counts as data.
RECURSIVE DataLinesWithComments(_)
DataLinesWithComments(lines) ==
    IF lines = <<>> THEN <<>>
    ELSE (IF StartsWith(Head(lines), DataPrefix)
          THEN <<TrimStart(SubSeq(Head(lines), 6, Len(Head(lines))))>>
          ELSE IF StartsWith(Head(lines), <<":">>)
          THEN <<Tail(Head(lines))>>
          ELSE <<>>) \o DataLinesWithComments(Tail(lines))

\* const dataLines = ...: the payloads of the lines that start with data:
RECURSIVE DataLines(_)
DataLines(lines) ==
    IF lines = <<>> THEN <<>>
    ELSE (IF StartsWith(Head(lines), DataPrefix)
          THEN <<TrimStart(SubSeq(Head(lines), 6, Len(Head(lines))))>>
          ELSE <<>>) \o DataLines(Tail(lines))

\* Mutant of JoinData: the payloads are joined with nothing between them.
JoinDataNoNewline(dataLines) == Concat(dataLines)

\* const data = dataLines.join('\n')
JoinData(dataLines) == Join(dataLines)

\* flushEvent(lines): what it yields (events), the joined payload (data) and
\* the branch taken (kind).  Its return on [DONE] ends flushEvent only.
flushEvent(lines) ==
    LET dataLines == DataLines(lines)
        data == JoinData(dataLines)
    IN  IF lines = <<>> \/ dataLines = <<>> \/ data = <<>>
        THEN [kind |-> "empty", data |-> data, events |-> <<>>]
        ELSE IF data = DoneMarker
        THEN [kind |-> "done", data |-> data, events |-> <<>>]
        ELSE LET r == JSONParse(data)
             IN  IF r.ok
                 THEN [kind |-> "event", data |-> data, events |-> <<r.val>>]
                 ELSE [kind |-> "invalid", data |-> data, events |-> <<>>]

\* Mutant of FlushInto: a payload that fails to parse leaves its lines in
\* eventLines, as if the exception skipped the reset.
FlushIntoKeepsInvalid(st) ==
    LET r == flushEvent(st.eventLines)
        s1 == [st EXCEPT
                 !.parsedLog = IF r.kind \in {"event", "invalid"}
                               THEN Append(@, r.data) ELSE @,
                 !.doneAt = IF r.kind = "done" /\ @ = -1 THEN Len(st.out) ELSE @]
        s2 == IF r.events = <<>> THEN s1 ELSE Yield(s1, r.events[1])
    IN  IF s2.stopped \/ r.kind = "invalid" THEN s2 ELSE [s2 EXCEPT !.eventLines = <<>>]

\* for await (const ev of flushEvent(eventLines)) { yield ev; }  eventLines = [];
FlushInto(st) ==
    LET r == flushEvent(st.eventLines)
        s1 == [st EXCEPT
                 !.parsedLog = IF r.kind \in {"event", "invalid"}
                               THEN Append(@, r.data) ELSE @,
                 !.doneAt = IF r.kind = "done" /\ @ = -1 THEN Len(st.out) ELSE @]
        s2 == IF r.events = <<>> THEN s1 ELSE Yield(s1, r.events[1])
    IN  IF s2.stopped THEN s2 ELSE [s2 EXCEPT !.eventLines = <<>>]

\* for (const rawLine of lines) { ... } of the read loop
RECURSIVE SSELoop(_, _)
SSELoop(lines, st) ==
    IF lines = <<>> \/ st.stopped THEN st
    ELSE LET line == StripCR(Head(lines))
         IN  SSELoop(Tail(lines),
                     IF line = <<>> THEN FlushInto(st)
                     ELSE IF ~StartsWith(line, <<":">>)
                          THEN [st EXCEPT !.eventLines = Append(@, line)]
                          ELSE st)

\* for (const rl of remainingLines) { ... } at the end of the input
RECURSIVE SSEEndLoop(_, _)
SSEEndLoop(lines, st) ==
    IF lines = <<>> \/ st.stopped THEN st
    ELSE LET line == StripCR(Head(lines))
         IN  SSEEndLoop(Tail(lines),
                        IF line = <<>> THEN FlushInto(st)
                        ELSE [st EXCEPT !.eventLines = Append(@, line)])

\* Mutant of PopPartial: the unterminated rest of a read is thrown away.
PopPartialDropped(lines) == <<>>

\* buffer = lines.pop() || ''
PopPartial(lines) == Last(lines)

\* parseSSE, a read that delivers chunk
SSEOnChunk(buf, chunk, st) ==
    LET lines == Split(buf \o chunk)
    IN  [buffer |-> PopPartial(lines), st |-> SSELoop(Front(lines), st)]

\* Mutant of SSEOnEnd: what the input leaves unflushed at its end is dropped.
SSEOnEndNoFlush(buf, st) == [buffer |-> buf, st |-> st]

\* parseSSE, the read that reports done
SSEOnEnd(buf, st) ==
    LET s1 == IF Len(buf) > 0 THEN SSEEndLoop(Split(buf), st) ELSE st
        s2 == IF ~s1.stopped /\ s1.eventLines # <<>> THEN FlushInto(s1) ELSE s1
    IN  [buffer |-> buf, st |-> s2]

\* if (x.trim()) { try { yield JSON.parse(x) } catch {} }
NDParseLine(line, st) ==
    IF TrimNonEmpty(line)
    THEN LET r == JSONParse(line)
             s1 == [st EXCEPT !.parsedLog = Append(@, line)]
         IN  IF r.ok THEN Yield(s1, r.val) ELSE s1
    ELSE st

\* for (const line of lines) { ... } of parseNDJSON
RECURSIVE NDLoop(_, _)
NDLoop(lines, st) ==
    IF lines = <<>> \/ st.stopped THEN st
    ELSE NDLoop(Tail(lines), NDParseLine(Head(lines), st))

\* parseNDJSON, a read that delivers chunk
NDOnChunk(buf, chunk, st) ==
    LET lines == Split(buf \o chunk)
    IN  [buffer |-> PopPartial(lines), st |-> NDLoop(Front(lines), st)]

\* Mutant of NDOnEnd: the last line is parsed only if a newline ended it.
NDOnEndSkipped(buf, st) == [buffer |-> buf, st |-> st]

\* parseNDJSON, the read that reports done
NDOnEnd(buf, st) == [buffer |-> buf, st |-> NDParseLine(buf, st)]

OnChunk(p, buf, chunk, st) ==
    IF p = "sse" THEN SSEOnChunk(buf, chunk, st) ELSE NDOnChunk(buf, chunk, st)

OnEnd(p, buf, st) ==
    IF p = "sse" THEN SSEOnEnd(buf, st) ELSE NDOnEnd(buf, st)

\* Mutant of ReleaseLock: the lock is not released.
ReleaseLockMissing(held) == held

\* finally { reader.releaseLock() }: the value of locked afterwards
ReleaseLock(held) == FALSE

\* The generator runs from one suspension to the next and r is what it
\* computed: it is left waiting for a read (next = "reading"), has run to its
\* end (next = "done"), or was ended by the consumer at a yield.
Suspend(r, next) ==
    /\ buffer' = r.buffer
    /\ eventLines' = r.st.eventLines
    /\ out' = r.st.out
    /\ parsedLog' = r.st.parsedLog
    /\ doneAt' = r.st.doneAt
    /\ pc' = IF r.st.stopped THEN "returned" ELSE next
    /\ locked' = IF r.st.stopped \/ next = "done" THEN ReleaseLock(locked) ELSE locked

\* The first next(): const reader = response.body?.getReader()
Start ==
    /\ pc = "init"
    /\ pc' = "reading"
    /\ locked' = TRUE
    /\ UNCHANGED <<parser, doc, rest, buffer, eventLines, out, parsedLog, doneAt, cut>>
    /\ UNCHANGED notWire

\* reader.read() delivers the next n bytes and the consumer takes every event
Read ==
    /\ pc = "reading"
    /\ \E n \in 1..Len(rest) :
         /\ Suspend(OnChunk(parser, buffer, SubSeq(rest, 1, n), GenState(-1)), "reading")
         /\ rest' = SubSeq(rest, n + 1, Len(rest))
         /\ cut' = (cut \/ (buffer' # <<>> /\ rest' # <<>>))
    /\ UNCHANGED <<parser, doc>>
    /\ UNCHANGED notWire

\* reader.read() delivers the next n bytes and the consumer leaves the loop
\* (return()) at the k-th event this yields
ReadAbandon ==
    /\ pc = "reading"
    /\ \E n \in 1..Len(rest) :
         LET all == OnChunk(parser, buffer, SubSeq(rest, 1, n), GenState(-1))
         IN  \E k \in 1..(Len(all.st.out) - Len(out)) :
               /\ Suspend(OnChunk(parser, buffer, SubSeq(rest, 1, n), GenState(k)), "reading")
               /\ rest' = SubSeq(rest, n + 1, Len(rest))
               /\ cut' = (cut \/ (buffer' # <<>> /\ rest' # <<>>))
    /\ UNCHANGED <<parser, doc>>
    /\ UNCHANGED notWire

\* reader.read() reports done: the rest of the buffer is processed
ReadEnd ==
    /\ pc = "reading"
    /\ rest = <<>>
    /\ Suspend(OnEnd(parser, buffer, GenState(-1)), "done")
    /\ UNCHANGED <<parser, doc, rest, cut>>
    /\ UNCHANGED notWire

\* reader.read() reports done and the consumer leaves at the k-th event of the rest
ReadEndAbandon ==
    /\ pc = "reading"
    /\ rest = <<>>
    /\ LET all == OnEnd(parser, buffer, GenState(-1))
       IN  \E k \in 1..(Len(all.st.out) - Len(out)) :
             Suspend(OnEnd(parser, buffer, GenState(k)), "done")
    /\ UNCHANGED <<parser, doc, rest, cut>>
    /\ UNCHANGED notWire

\* reader.read() rejects: the exception leaves the generator through finally
ReadFail ==
    /\ pc = "reading"
    /\ pc' = "failed"
    /\ locked' = ReleaseLock(locked)
    /\ UNCHANGED <<parser, doc, rest, buffer, eventLines, out, parsedLog, doneAt, cut>>
    /\ UNCHANGED notWire

\* Line contents of the modelled bodies
SSETexts ==
    { <<"d", "a", "t", "a", ":", " ", "{", "}">>,
      <<"d", "a", "t", "a", ":", "[">>,
      <<"d", "a", "t", "a", ":", "]">>,
      <<"d", "a", "t", "a", ":", "[", "D", "O", "N", "E", "]">>,
      <<":", "c">>,
      <<>> }

NDTexts ==
    { <<"{", "}">>, <<"[", " ", "]">>, <<"[">>, <<" ">>, <<>> }

LineEnds == {<<LF>>, <<CR, LF>>}

\* Bodies of at most MaxLines lines, every line ended by eol; closed says
\* that the last line has its line ending too.
Docs(texts) ==
    { d \in [lines : UNION { [1..n -> texts] : n \in 0..MaxLines },
             eol : LineEnds, closed : BOOLEAN] :
        /\ d.lines = <<>> => (d.closed /\ d.eol = <<LF>>)
        /\ ~d.closed => Last(d.lines) # <<>> }

\* The bytes of a body
Render(d) ==
    Concat([i \in 1..Len(d.lines) |->
              d.lines[i] \o (IF i < Len(d.lines) \/ d.closed THEN d.eol ELSE <<>>)])

WireInit ==
    /\ parser \in {"sse", "ndjson"}
    /\ doc \in Docs(IF parser = "sse" THEN SSETexts ELSE NDTexts)
    /\ rest = Render(doc)
    /\ buffer = <<>>
    /\ eventLines = <<>>
    /\ out = <<>>
    /\ parsedLog = <<>>
    /\ doneAt = -1
    /\ cut = FALSE
    /\ pc = "init"
    /\ locked = FALSE

\* No parser exists
WireIdle ==
    /\ parser = "none"
    /\ doc = [lines |-> <<>>, eol |-> <<LF>>, closed |-> TRUE]
    /\ rest = <<>>
    /\ buffer = <<>>
    /\ eventLines = <<>>
    /\ out = <<>>
    /\ parsedLog = <<>>
    /\ doneAt = -1
    /\ cut = FALSE
    /\ pc = "none"
    /\ locked = FALSE

WireNext ==
    \/ Start
    \/ Read
    \/ ReadAbandon
    \/ ReadEnd
    \/ ReadEndAbandon
    \/ ReadFail

----------------------------------------------------------------------------
(* StreamProcessor *)

\* An object with no properties: {} (the default of toolCallBuffer.get(id) || {})
EmptyObject == [k \in {} |-> 0]

Has(obj, k) == k \in DOMAIN obj

\* { ...a, ...b }: the properties of a, overwritten and extended by those of b
Spread(a, b) ==
    [k \in DOMAIN a \cup DOMAIN b |-> IF k \in DOMAIN b THEN b[k] ELSE a[k]]

\* { ...a, ...b } for two arguments mappings, each a set of <<key, value>>
SpreadArgs(a, b) ==
    {kv \in a : \A kw \in b : kw[1] # kv[1]} \cup b

\* partial.name && partial.arguments: a non-empty name, and any arguments object
Complete(partial) ==
    /\ Has(partial, "name")
    /\ partial.name # ""
    /\ Has(partial, "arguments")

\* toolCallBuffer.get(id) || {}
BufferGet(buf, id) ==
    IF \E i \in 1..Len(buf) : buf[i].id = id
    THEN buf[CHOOSE i \in 1..Len(buf) : buf[i].id = id].partial
    ELSE EmptyObject

\* toolCallBuffer.set(id, updated): a known key keeps its place in the Map
BufferSet(buf, id, updated) ==
    IF \E i \in 1..Len(buf) : buf[i].id = id
    THEN [i \in 1..Len(buf) |->
            IF buf[i].id = id THEN [id |-> id, partial |-> updated] ELSE buf[i]]
    ELSE Append(buf, [id |-> id, partial |-> updated])

\* The ToolCall built from an entry of the buffer
ToolCallOf(e) ==
    [id |-> e.id, name |-> e.partial.name, arguments |-> e.partial.arguments]

IsCompleteEntry(e) == Complete(e.partial)

\* The complete entries of the buffer as ToolCalls, in the Map's order
RECURSIVE CompleteCalls(_)
CompleteCalls(buf) ==
    IF buf = <<>> THEN <<>>
    ELSE (IF IsCompleteEntry(Head(buf)) THEN <<ToolCallOf(Head(buf))>> ELSE <<>>)
         \o CompleteCalls(Tail(buf))

\* Mutant of processToolCallChunk: arguments are replaced, never merged.
processToolCallChunkNoMerge(buf, partial) ==
    IF ~Has(partial, "id") \/ partial.id = "" THEN buf
    ELSE BufferSet(buf, partial.id, Spread(BufferGet(buf, partial.id), partial))

\* processToolCallChunk(partial): the buffer afterwards
processToolCallChunk(buf, partial) ==
    IF ~Has(partial, "id") \/ partial.id = "" THEN buf
    ELSE LET existing == BufferGet(buf, partial.id)
             updated == Spread(existing, partial)
         IN  BufferSet(buf, partial.id,
                       IF Has(existing, "arguments") /\ Has(partial, "arguments")
                       THEN [updated EXCEPT !.arguments =
                               SpreadArgs(existing.arguments, partial.arguments)]
                       ELSE updated)

\* Mutant of onToolCallOnChunk: a call is reported as soon as it is complete.
onToolCallOnChunkEager(buf) ==
    [i \in 1..Len(CompleteCalls(buf)) |-> <<"onToolCall", CompleteCalls(buf)[i]>>]

\* The onToolCall calls made while a tool_call chunk is processed: none
onToolCallOnChunk(buf) == <<>>

\* Mutant of finalizeToolCalls: the loop ends after the first complete call.
finalizeToolCallsFirstOnly(buf) ==
    [i \in 1..(IF CompleteCalls(buf) = <<>> THEN 0 ELSE 1) |->
        <<"onToolCall", CompleteCalls(buf)[i]>>]

\* finalizeToolCalls(): the onToolCall calls it makes
finalizeToolCalls(buf) ==
    [i \in 1..Len(CompleteCalls(buf)) |-> <<"onToolCall", CompleteCalls(buf)[i]>>]

\* getToolCalls()
getToolCalls == CompleteCalls(toolCallBuffer)

\* getText(), getThinking(), getUsage()
getText == textBuffer
getThinking == thinkingBuffer
getUsage == usage

\* The chunks of the modelled streams
ToolCallFragments ==
    { [id |-> "1", name |-> "echo"],
      [id |-> "1", arguments |-> {<<"a", 1>>}],
      [id |-> "1", arguments |-> {<<"a", 2>>, <<"b", 1>>}],
      [id |-> "1", arguments |-> {}],
      [id |-> "2", name |-> "grep", arguments |-> {<<"a", 1>>}],
      [id |-> "2", name |-> "", arguments |-> {}],
      [name |-> "echo", arguments |-> {<<"a", 1>>}] }

TextContents == {<<>>, <<"a">>}
ThinkingContents == {<<"t">>}
Usages == {[promptTokens |-> 1, completionTokens |-> 2, totalTokens |-> 3]}
ErrorMessages == {"boom", ""}

MoreChunks == Len(history) < MaxChunks

\* case 'text'
ProcessText ==
    /\ MoreChunks
    /\ \E content \in TextContents :
         /\ history' = Append(history, [type |-> "text", content |-> content])
         /\ IF content # <<>>
            THEN /\ textBuffer' = textBuffer \o content
                 /\ callbacks' = Append(callbacks, <<"onText", content>>)
            ELSE UNCHANGED <<textBuffer, callbacks>>
    /\ UNCHANGED <<thinkingBuffer, toolCallBuffer, usage>>
    /\ UNCHANGED notSP

\* case 'tool_call'
ProcessToolCall ==
    /\ MoreChunks
    /\ \E partial \in ToolCallFragments :
         /\ history' = Append(history, [type |-> "tool_call", toolCall |-> partial])
         /\ toolCallBuffer' = processToolCallChunk(toolCallBuffer, partial)
         /\ callbacks' = callbacks \o onToolCallOnChunk(toolCallBuffer')
    /\ UNCHANGED <<textBuffer, thinkingBuffer, usage>>
    /\ UNCHANGED notSP

\* Mutant of ProcessThinking: the content goes to the text buffer.
ProcessThinkingIntoText ==
    /\ MoreChunks
    /\ \E content \in ThinkingContents :
         /\ history' = Append(history, [type |-> "thinking", content |-> content])
         /\ textBuffer' = textBuffer \o content
         /\ callbacks' = Append(callbacks, <<"onThinking", content>>)
    /\ UNCHANGED <<thinkingBuffer, toolCallBuffer, usage>>
    /\ UNCHANGED notSP

\* case 'thinking'
ProcessThinking ==
    /\ MoreChunks
    /\ \E content \in ThinkingContents :
         /\ history' = Append(history, [type |-> "thinking", content |-> content])
         /\ IF content # <<>>
            THEN /\ thinkingBuffer' = thinkingBuffer \o content
                 /\ callbacks' = Append(callbacks, <<"onThinking", content>>)
            ELSE UNCHANGED <<thinkingBuffer, callbacks>>
    /\ UNCHANGED <<textBuffer, toolCallBuffer, usage>>
    /\ UNCHANGED notSP

\* case 'usage'
ProcessUsage ==
    /\ MoreChunks
    /\ \E u \in Usages :
         /\ history' = Append(history, [type |-> "usage", usage |-> u])
         /\ usage' = <<u>>
         /\ callbacks' = Append(callbacks, <<"onUsage", u>>)
    /\ UNCHANGED <<textBuffer, thinkingBuffer, toolCallBuffer>>
    /\ UNCHANGED notSP

\* Mutant of ProcessError: an error chunk clears the text buffer.
ProcessErrorClears ==
    /\ MoreChunks
    /\ \E e \in ErrorMessages :
         /\ history' = Append(history, [type |-> "error", error |-> e])
         /\ callbacks' = IF e # "" THEN Append(callbacks, <<"onError", e>>) ELSE callbacks
    /\ textBuffer' = <<>>
    /\ UNCHANGED <<thinkingBuffer, toolCallBuffer, usage>>
    /\ UNCHANGED notSP

\* case 'error'
ProcessError ==
    /\ MoreChunks
    /\ \E e \in ErrorMessages :
         /\ history' = Append(history, [type |-> "error", error |-> e])
         /\ callbacks' = IF e # "" THEN Append(callbacks, <<"onError", e>>) ELSE callbacks
    /\ UNCHANGED <<textBuffer, thinkingBuffer, toolCallBuffer, usage>>
    /\ UNCHANGED notSP

\* case 'done'
ProcessDone ==
    /\ MoreChunks
    /\ history' = Append(history, [type |-> "done"])
    /\ callbacks' = callbacks \o finalizeToolCalls(toolCallBuffer)
    /\ UNCHANGED <<textBuffer, thinkingBuffer, toolCallBuffer, usage>>
    /\ UNCHANGED notSP

\* Mutant of Reset: the partial tool calls are kept.
ResetKeepsToolCalls ==
    /\ MoreChunks
    /\ history' = Append(history, [type |-> "reset"])
    /\ callbacks' = Append(callbacks, <<"reset">>)
    /\ textBuffer' = <<>>
    /\ thinkingBuffer' = <<>>
    /\ usage' = <<>>
    /\ UNCHANGED toolCallBuffer
    /\ UNCHANGED notSP

\* reset()
Reset ==
    /\ MoreChunks
    /\ history' = Append(history, [type |-> "reset"])
    /\ callbacks' = Append(callbacks, <<"reset">>)
    /\ textBuffer' = <<>>
    /\ toolCallBuffer' = <<>>
    /\ thinkingBuffer' = <<>>
    /\ usage' = <<>>
    /\ UNCHANGED notSP

\* new StreamProcessor(options)
SPInit ==
    /\ textBuffer = <<>>
    /\ toolCallBuffer = <<>>
    /\ thinkingBuffer = <<>>
    /\ usage = <<>>
    /\ callbacks = <<>>
    /\ history = <<>>

\* No StreamProcessor is in use
SPIdle == SPInit

SPNext ==
    \/ ProcessText
    \/ ProcessToolCall
    \/ ProcessThinking
    \/ ProcessUsage
    \/ ProcessError
    \/ ProcessDone
    \/ Reset


----------------------------------------------------------------------------
(* mergeStreams *)

Sources == 1..NumSources

\* An entry of pending: no entry (absent), a promise not settled yet
\* (waiting), or one settled with { value, done: false } or { done: true }
Absent == [st |-> "absent", val |-> 0]
Waiting == [st |-> "waiting", val |-> 0]

Settled(pend) == {i \in Sources : pend[i].st \in {"value", "done", "rejected"}}

\* await Promise.race(pending.values()) when some promise is settled already:
\* the first settled promise in the Map's order, which is the order of the
\* indexes (set() on a known key keeps its place), wins.
RaceWinner(pend) ==
    CHOOSE i \in Settled(pend) : \A j \in Settled(pend) : i <= j

\* The while loop from its head to the next suspension: the end of the
\* generator (done), a yield (yielded, val the item and index its source), or
\* the await of a race that no settled promise decides (race).
RECURSIVE RunLoop(_)
RunLoop(pend) ==
    IF \A i \in Sources : pend[i].st = "absent"
    THEN [pending |-> pend, pc |-> "done", index |-> 0, val |-> <<>>]
    ELSE IF Settled(pend) = {}
    THEN [pending |-> pend, pc |-> "race", index |-> 0, val |-> <<>>]
    ELSE LET w == RaceWinner(pend)
         IN  IF pend[w].st = "rejected"
             THEN [pending |-> pend, pc |-> "failed", index |-> 0, val |-> <<>>]
             ELSE IF pend[w].st = "done"
             THEN RunLoop([pend EXCEPT ![w] = Absent])
             ELSE [pending |-> pend, pc |-> "yielded", index |-> w,
                   val |-> <<pend[w].val>>]

\* Mutant of Rearm: every source is asked again, and what the others had
\* delivered meanwhile is dropped.
RearmAll(pend, w) ==
    [i \in Sources |-> IF pend[i].st = "absent" THEN Absent ELSE Waiting]

\* pending.set(index, iterators[index].next().then(...))
Rearm(pend, w) == [pend EXCEPT ![w] = Waiting]

\* The generator runs to its next suspension
MergeRun(pend) ==
    LET r == RunLoop(pend)
    IN  /\ pending' = r.pending
        /\ mPc' = r.pc
        /\ index' = r.index
        /\ merged' = merged \o r.val

\* The consumer's first next(): every source is asked for its first item
MergeStart ==
    /\ mPc = "init"
    /\ MergeRun([i \in Sources |-> Waiting])
    /\ UNCHANGED <<streams, cursor>>
    /\ UNCHANGED notMerge

\* The next() of source i settles, with its next item or with done; if the
\* generator awaits a race, this promise wins it.
SourceSettle ==
    /\ mPc \in {"race", "yielded"}
    /\ \E i \in Sources :
         /\ pending[i].st = "waiting"
         /\ LET res == IF cursor[i] < Len(streams[i])
                       THEN [st |-> "value", val |-> streams[i][cursor[i] + 1]]
                       ELSE [st |-> "done", val |-> 0]
                pend == [pending EXCEPT ![i] = res]
            IN  /\ cursor' = IF res.st = "value"
                             THEN [cursor EXCEPT ![i] = @ + 1] ELSE cursor
                /\ IF mPc = "race"
                   THEN MergeRun(pend)
                   ELSE /\ pending' = pend
                        /\ UNCHANGED <<mPc, index, merged>>
    /\ UNCHANGED streams
    /\ UNCHANGED notMerge

\* The consumer asks for the next item: the generator resumes after its yield
ConsumerNext ==
    /\ mPc = "yielded"
    /\ MergeRun(Rearm(pending, index))
    /\ UNCHANGED <<streams, cursor>>
    /\ UNCHANGED notMerge

\* The next() of source i rejects: the source has thrown.  If the generator
\* awaits a race, the race rejects and the exception leaves mergeStreams,
\* which has no try block.
SourceFails ==
    /\ mPc \in {"race", "yielded"}
    /\ \E i \in Sources :
         /\ pending[i].st = "waiting"
         /\ LET pend == [pending EXCEPT ![i] = [st |-> "rejected", val |-> 0]]
            IN  IF mPc = "race"
                THEN MergeRun(pend)
                ELSE /\ pending' = pend
                     /\ UNCHANGED <<mPc, index, merged>>
    /\ UNCHANGED <<streams, cursor>>
    /\ UNCHANGED notMerge

\* The consumer stops iterating: return() ends the generator at its yield.
\* mergeStreams has no finally block and calls return() on no source.
ConsumerReturn ==
    /\ mPc = "yielded"
    /\ mPc' = "returned"
    /\ UNCHANGED <<streams, cursor, pending, index, merged>>
    /\ UNCHANGED notMerge

\* Source i holds the items 10*i+1, 10*i+2, ...: at most MaxItems of them
MergeInit ==
    /\ \E len \in [Sources -> 0..MaxItems] :
         streams = [i \in Sources |-> [k \in 1..len[i] |-> 10 * i + k]]
    /\ cursor = [i \in Sources |-> 0]
    /\ pending = [i \in Sources |-> Absent]
    /\ index = 0
    /\ merged = <<>>
    /\ mPc = "init"

\* mergeStreams is not in use
MergeIdle ==
    /\ streams = [i \in Sources |-> <<>>]
    /\ cursor = [i \in Sources |-> 0]
    /\ pending = [i \in Sources |-> Absent]
    /\ index = 0
    /\ merged = <<>>
    /\ mPc = "none"

MergeNext ==
    \/ MergeStart
    \/ SourceSettle
    \/ ConsumerNext

\* mergeStreams with a consumer that may stop and sources that may fail
MergeEndNext ==
    \/ MergeStart
    \/ SourceSettle
    \/ ConsumerNext
    \/ SourceFails
    \/ ConsumerReturn

----------------------------------------------------------------------------
(* Claims about the wire parsers *)

\* A generator that has not run yet
FreshGen ==
    [eventLines |-> <<>>, out |-> <<>>, parsedLog |-> <<>>, doneAt |-> -1,
     left |-> -1, stopped |-> FALSE]

\* What parseSSE yields when the whole body d arrives in a single read
OneRead(d) ==
    IF Render(d) = <<>>
    THEN SSEOnEnd(<<>>, FreshGen).st.out
    ELSE LET r == SSEOnChunk(<<>>, Render(d), FreshGen)
         IN  SSEOnEnd(r.buffer, r.st).st.out

Finished(p) == parser = p /\ pc = "done"

\* C1: whatever the reads the body is cut into, parseSSE has yielded, when it
\* ends, the events it yields for the same body delivered in one read.
C1_ChunkInvariance == Finished("sse") => out = OneRead(doc)

\* C1 witness: a body cut inside a line was parsed to its end, with two events.
C1_Witness == Finished("sse") /\ cut /\ Len(out) >= 2

\* C2: once an event with the payload [DONE] was flushed, parseSSE yields
\* nothing more: the output stays as long as it was then.
C2_DoneEndsSequence == doneAt # -1 => Len(out) = doneAt

\* The events of a body: its lines between blank lines
RECURSIVE Groups(_, _)
Groups(lines, cur) ==
    IF lines = <<>> THEN <<cur>>
    ELSE IF Head(lines) = <<>> THEN <<cur>> \o Groups(Tail(lines), <<>>)
    ELSE Groups(Tail(lines), Append(cur, Head(lines)))

IsData(line) == Len(line) >= 5 /\ \A i \in 1..5 : line[i] = DataPrefix[i]

\* The payload of a data: line: what follows data: and the blanks after it
Payload(line) ==
    LET first == CHOOSE k \in 6..(Len(line) + 1) :
                   /\ \A j \in 6..(k - 1) : line[j] \in WhiteSpace
                   /\ k <= Len(line) => line[k] \notin WhiteSpace
    IN  SubSeq(line, first, Len(line))

\* The payloads of the data: lines of a group, one newline between two of them
GroupPayload(g) ==
    LET ps == SelectSeq(g, IsData)
    IN  Concat([i \in 1..Len(ps) |->
                  (IF i > 1 THEN <<LF>> ELSE <<>>) \o Payload(ps[i])])

HasPayload(g) ==
    SelectSeq(g, IsData) # <<>> /\ GroupPayload(g) \notin {<<>>, DoneMarker}

\* The texts a body gives to parse: one for each group that has a payload
RECURSIVE GroupPayloads(_)
GroupPayloads(gs) ==
    IF gs = <<>> THEN <<>>
    ELSE (IF HasPayload(Head(gs)) THEN <<GroupPayload(Head(gs))>> ELSE <<>>)
         \o GroupPayloads(Tail(gs))

\* The values of the texts that are JSON, in order
RECURSIVE ValidValues(_)
ValidValues(texts) ==
    IF texts = <<>> THEN <<>>
    ELSE (IF JSONParse(Head(texts)).ok THEN <<JSONParse(Head(texts)).val>> ELSE <<>>)
         \o ValidValues(Tail(texts))

OtherEol(d) == [d EXCEPT !.eol = IF @ = <<LF>> THEN <<CR, LF>> ELSE <<LF>>]

\* C5: the events of a body do not depend on its line endings: whatever the
\* reads, the output is the output of the body written with the other line
\* ending (CRLF for LF, LF for CRLF).
C5_LineEndings == Finished("sse") => out = OneRead(OtherEol(doc))

\* C5 witness: a CRLF body, cut inside a line, gave two events.
C5_Witness ==
    Finished("sse") /\ doc.eol = <<CR, LF>> /\ cut /\ Len(out) >= 2

\* C6: parseNDJSON yields the values of the lines of the body that parse, in
\* line order, the unterminated last line included, whatever the reads.
C6_NDJSONLines == Finished("ndjson") => out = ValidValues(doc.lines)

\* C6 witness: a body cut inside a line, with a line that does not parse and
\* a last line that no newline ends, gave two values.
C6_Witness ==
    /\ Finished("ndjson")
    /\ cut
    /\ ~doc.closed
    /\ \E i \in 1..Len(parsedLog) : ~JSONParse(parsedLog[i]).ok
    /\ Len(out) >= 2

\* C7: a parser that has ended (input exhausted, read failed, consumer gone)
\* does not hold the reader's lock.
C7_ReaderReleased == pc \in {"done", "returned", "failed"} => ~locked

\* C7 witness: the consumer left after an event and the lock is free.
C7_Witness == pc = "returned" /\ out # <<>> /\ ~locked

----------------------------------------------------------------------------
(* Claims about StreamProcessor *)

\* The part of a log after its last reset() mark
SinceReset(log, IsMark(_)) ==
    IF \E i \in 1..Len(log) : IsMark(log[i])
    THEN LET last == CHOOSE i \in 1..Len(log) :
                       IsMark(log[i]) /\ \A j \in (i + 1)..Len(log) : ~IsMark(log[j])
         IN  SubSeq(log, last + 1, Len(log))
    ELSE log

IsResetChunk(c) == c.type = "reset"
IsResetCall(c) == c[1] = "reset"
IsDoneChunk(c) == c.type = "done"
IsOnToolCall(c) == c[1] = "onToolCall"

\* The chunks processed, and the callbacks called, since construction or the last reset()
Turn == SinceReset(history, IsResetChunk)
TurnCallbacks == SinceReset(callbacks, IsResetCall)

\* The ToolCalls given to onToolCall in this turn
Reported ==
    LET cs == SelectSeq(TurnCallbacks, IsOnToolCall)
    IN  [i \in 1..Len(cs) |-> cs[i][2]]

DonesInTurn == Len(SelectSeq(Turn, IsDoneChunk))

\* The fragments of the turn that carry the id and the field
Carrying(id, field) ==
    { i \in 1..Len(Turn) :
        /\ Turn[i].type = "tool_call"
        /\ Has(Turn[i].toolCall, "id")
        /\ Turn[i].toolCall.id = id
        /\ Has(Turn[i].toolCall, field) }

LastCarrying(id, field) ==
    Turn[CHOOSE i \in Carrying(id, field) : \A j \in Carrying(id, field) : j <= i].toolCall

\* A ToolCall that carries the merged fields of its id: the last name given
\* and every argument of the last fragment that gave arguments
IsMerged(c) ==
    /\ Carrying(c.id, "name") # {}
    /\ Carrying(c.id, "arguments") # {}
    /\ c.name = LastCarrying(c.id, "name").name
    /\ LastCarrying(c.id, "arguments").arguments \subseteq c.arguments

\* The chunks of the turn that are fragments of the tool call id
FragmentsOf(id) ==
    { i \in 1..Len(Turn) :
        /\ Turn[i].type = "tool_call"
        /\ Has(Turn[i].toolCall, "id")
        /\ Turn[i].toolCall.id = id }

\* C8 as stated: before a done chunk neither onToolCall nor getToolCalls
\* shows a complete ToolCall for an id whose fragments came in several chunks.
C8_NothingBeforeDone ==
    DonesInTurn = 0 =>
        /\ Reported = <<>>
        /\ \A i \in 1..Len(getToolCalls) :
             Cardinality(FragmentsOf(getToolCalls[i].id)) < 2

\* C8 amended: onToolCall reports no ToolCall before a done chunk, and the
\* first done chunk reports exactly the merged calls, one for each complete
\* id; getToolCalls shows a call as soon as its name and arguments have
\* arrived, at most one for an id, with the merged name and arguments.
C8_ReportedAtDone ==
    /\ DonesInTurn = 0 => Reported = <<>>
    /\ (DonesInTurn = 1 /\ Last(Turn).type = "done") => Reported = getToolCalls
    /\ \A i, j \in 1..Len(getToolCalls) :
         getToolCalls[i].id = getToolCalls[j].id => i = j
    /\ \A i \in 1..Len(getToolCalls) : IsMerged(getToolCalls[i])

\* C8 witness: the name of call 1 came in one chunk, its arguments in the
\* next, and the done chunk that followed reported the merged call.
C8_Witness ==
    /\ Len(Turn) = 3
    /\ Turn[1] = [type |-> "tool_call", toolCall |-> [id |-> "1", name |-> "echo"]]
    /\ Turn[2] = [type |-> "tool_call",
                  toolCall |-> [id |-> "1", arguments |-> {<<"a", 1>>}]]
    /\ Turn[3].type = "done"
    /\ Reported = <<[id |-> "1", name |-> "echo", arguments |-> {<<"a", 1>>}]>>

----------------------------------------------------------------------------
(* Claims about mergeStreams *)

\* The items of source i among the items yielded, in the order yielded
FromSource(i) == SelectSeq(merged, LAMBDA v : v \div 10 = i)

IsPrefix(a, b) == Len(a) <= Len(b) /\ a = SubSeq(b, 1, Len(a))

C9_Safe ==
    /\ \A k \in 1..Len(merged) : merged[k] \div 10 \in Sources
    /\ \A i \in Sources : IsPrefix(FromSource(i), streams[i])
    /\ mPc = "done" <=>
         /\ mPc # "init"
         /\ \A i \in Sources : pending[i].st = "absent"
    /\ mPc = "done" =>
         \A i \in Sources : FromSource(i) = streams[i] /\ cursor[i] = Len(streams[i])

\* C9: mergeStreams yields the items of each source in the source's order and
\* no item twice; it ends exactly when every source has reported its end, and
\* then every item of every source has been yielded; and it does end,
\* whatever the order in which the sources settle.
C9_MergeStreams == []C9_Safe /\ <>(mPc = "done")

\* C9 witness: two sources of two items were merged to the end, interleaved.
C9_Witness == mPc = "done" /\ merged = <<11, 21, 22, 12>>

----------------------------------------------------------------------------
(* The agent's tool loop: sendMessageToAgent *)

\* createRouterTools: the one router tool
RouterTools == {"switch_agent"}

\* ALL_TOOLS, by declaration name: one registry tool stands for the list
ALL_TOOLS == {"list_directory"}

\* The functionCall parts a response may carry: a router tool, a registry
\* tool and a name that neither list declares.
FunctionCalls ==
    { [name |-> "switch_agent", args |-> "coder"],
      [name |-> "list_directory", args |-> "src"],
      [name |-> "no_such_tool", args |-> "x"] }

\* generateCallId draws from Math.random: a draw may repeat an earlier one or
\* differ from all of them.  The id k stands for the k-th distinct value drawn
\* in the turn; used is the set of those drawn before the batch.
CallIds(used, n) ==
    { ids \in [1..n -> 1..(Cardinality(used) + n)] :
        \A i \in 1..n :
            ids[i] <= Cardinality(used \cup {ids[j] : j \in 1..(i - 1)}) + 1 }

\* What an executor's promise may resolve to, and what it may reject with
ExecutorResults(name, args) == { name \o "(" \o args \o ")" }
Thrown == { [isError |-> TRUE, message |-> "boom"], [isError |-> FALSE, message |-> "boom"] }

\* `Error: ${e instanceof Error ? e.message : 'Unknown error'}`
ErrorResult(e) == IF e.isError THEN "Error: " \o e.message ELSE "Error: Unknown error"

\* let result = "Error: Tool not found"
ToolNotFound == "Error: Tool not found"

\* return "AI Connection Error."
ConnectionError == "AI Connection Error."

\* The text parts of a response's content, in order.  The model may say
\* anything, also the words of the catch block.
Texts == { <<>>, <<"a">>, <<"", "b", "a">>, <<ConnectionError>> }

\* A response: whether candidates[0].content is there, its text parts and
\* its functionCall parts
Response(texts, calls) == [content |-> TRUE, texts |-> texts, calls |-> calls]
NoContent == [content |-> FALSE, texts |-> <<>>, calls |-> <<>>]

CallSeqs(n) == UNION { [1..k -> FunctionCalls] : k \in 0..n }

\* content.parts.find(p => p.text): the first part with a non-empty text
FirstText(texts) ==
    LET I == { i \in 1..Len(texts) : texts[i] # "" }
    IN  IF I = {} THEN <<>> ELSE << texts[CHOOSE i \in I : \A j \in I : i <= j] >>

\* routerTools.find(...) or ALL_TOOLS.find(...) finds a tool of that name
Known(name) == name \in RouterTools \cup ALL_TOOLS

\* Mutant of Dispatch: the calls are taken one after the other; the executor
\* of a call is invoked only when the calls before it had nothing to wait for.
DispatchSequential(calls, ids) ==
    [ i \in 1..Len(calls) |->
        [ id |-> ids[i], name |-> calls[i].name, args |-> calls[i].args,
          st |-> IF Known(calls[i].name) THEN "running" ELSE "settled",
          executor |-> IF Known(calls[i].name) /\ \A j \in 1..(i - 1) : ~Known(calls[j].name)
                       THEN "pending" ELSE "absent",
          settledWith |-> <<>>,
          result |-> ToolNotFound ] ]

\* functionCalls.map(async call => ...): each callback runs up to its first
\* await.  A call of a known tool is left awaiting its executor; a call of an
\* unknown name has no await and runs to its end.
\* st is the callback's state, executor the state of the promise that
\* tool.execute returned ("absent" when it was not called) and settledWith
\* the value that promise resolved to or was rejected with.
Dispatch(calls, ids) ==
    [ i \in 1..Len(calls) |->
        [ id |-> ids[i], name |-> calls[i].name, args |-> calls[i].args,
          st |-> IF Known(calls[i].name) THEN "running" ELSE "settled",
          executor |-> IF Known(calls[i].name) THEN "pending" ELSE "absent",
          settledWith |-> <<>>,
          result |-> ToolNotFound ] ]

onToolStart(c) == [cb |-> "onToolStart", id |-> c.id, name |-> c.name, args |-> c.args]
onToolEnd(c) == [cb |-> "onToolEnd", id |-> c.id, result |-> c.result]

RECURSIVE DispatchLog(_)
DispatchLog(b) ==
    IF b = <<>> THEN <<>>
    ELSE DispatchLog(Front(b)) \o <<onToolStart(Last(b))>>
            \o (IF Last(b).st = "settled" THEN <<onToolEnd(Last(b))>> ELSE <<>>)

\* Mutant of toolResponses: the results come in the reverse of the calls' order.
toolResponsesReversed(b) ==
    [ i \in 1..Len(b) |->
        [functionResponse |-> [name |-> b[Len(b) + 1 - i].name,
                               response |-> [result |-> b[Len(b) + 1 - i].result]]] ]

\* return { functionResponse: { name: call.name, response: { result } } }
toolResponses(b) ==
    [ i \in 1..Len(b) |->
        [functionResponse |-> [name |-> b[i].name, response |-> [result |-> b[i].result]]] ]

AllSettled(b) == \A i \in 1..Len(b) : b[i].st = "settled"

\* Mutant of AwaitAll: the loop goes on as soon as one callback has settled.
AwaitAny(b) ==
    IF \E i \in 1..Len(b) : b[i].st = "settled"
    THEN aPc' = "requesting" /\ sent' = Append(sent, toolResponses(b)) /\ elapsed' = 0
    ELSE aPc' = "executing" /\ UNCHANGED <<sent, elapsed>>

\* await Promise.all(...), then response = await chat.sendMessage(toolResponses)
AwaitAll(b) ==
    IF AllSettled(b)
    THEN aPc' = "requesting" /\ sent' = Append(sent, toolResponses(b)) /\ elapsed' = 0
    ELSE aPc' = "executing" /\ UNCHANGED <<sent, elapsed>>

\* The ids drawn so far in the turn
UsedIds == { toolLog[i].id : i \in 1..Len(toolLog) }

\* The functionCalls dispatched so far in the turn
Dispatched == Len(SelectSeq(toolLog, LAMBDA e : e.cb = "onToolStart"))

\* if (textPart?.text) { finalResponse += textPart.text; onStream(textPart.text) }
HandleText(texts) ==
    /\ finalResponse' = IF FirstText(texts) = <<>> THEN finalResponse
                        ELSE finalResponse \o FirstText(texts)[1]
    /\ streamed' = streamed \o FirstText(texts)

\* The response has no candidate content: break, return finalResponse
ProviderNoContent ==
    /\ aPc = "requesting"
    /\ aPc' = "returned"
    /\ response' = <<NoContent>>
    /\ returned' = <<finalResponse>>
    /\ UNCHANGED <<sent, finalResponse, streamed, batch, toolLog, elapsed>>
    /\ UNCHANGED notAgent

\* The response has content and no functionCall part: break, return finalResponse
ProviderAnswers ==
    /\ aPc = "requesting"
    /\ \E texts \in Texts :
         /\ response' = <<Response(texts, <<>>)>>
         /\ HandleText(texts)
         /\ returned' = <<finalResponse'>>
    /\ aPc' = "returned"
    /\ UNCHANGED <<sent, batch, toolLog, elapsed>>
    /\ UNCHANGED notAgent

\* The response has functionCall parts: the batch is dispatched
ProviderCallsTools ==
    /\ aPc = "requesting"
    /\ Len(sent) < MaxRounds
    /\ \E texts \in Texts, calls \in CallSeqs(MaxCalls - Dispatched) \ {<<>>} :
         \E ids \in CallIds(UsedIds, Len(calls)) :
            LET b == Dispatch(calls, ids)
            IN  /\ response' = <<Response(texts, calls)>>
                /\ HandleText(texts)
                /\ batch' = b
                /\ toolLog' = toolLog \o DispatchLog(b)
                /\ AwaitAll(b)
    /\ UNCHANGED returned
    /\ UNCHANGED notAgent

\* chat.sendMessage rejects: catch (e) { return "AI Connection Error." }
ProviderFails ==
    /\ aPc = "requesting"
    /\ aPc' = "caught"
    /\ returned' = <<ConnectionError>>
    /\ UNCHANGED <<sent, response, finalResponse, streamed, batch, toolLog, elapsed>>
    /\ UNCHANGED notAgent

\* Mutant of Settle: the rejection of an executor is not caught in the
\* callback, so Promise.all rejects and the catch block of the loop returns.
SettleUncaught(i, how, v) ==
    IF how = "rejected"
    THEN /\ batch' = [batch EXCEPT ![i].executor = how, ![i].settledWith = <<v>>]
         /\ aPc' = "caught"
         /\ returned' = <<ConnectionError>>
         /\ UNCHANGED <<sent, elapsed, toolLog, response, finalResponse, streamed>>
    ELSE LET b == [batch EXCEPT ![i].st = "settled", ![i].executor = how,
                                ![i].settledWith = <<v>>, ![i].result = v]
         IN  /\ batch' = b
             /\ toolLog' = Append(toolLog, onToolEnd(b[i]))
             /\ AwaitAll(b)
             /\ UNCHANGED <<response, finalResponse, streamed, returned>>

\* The callback of call i goes on from its await: with the value v the
\* executor resolved to, or in the catch block with the value v it threw
Settle(i, how, v) ==
    LET b == [batch EXCEPT ![i].st = "settled", ![i].executor = how,
                           ![i].settledWith = <<v>>,
                           ![i].result = IF how = "resolved" THEN v ELSE ErrorResult(v)]
    IN  /\ batch' = b
        /\ toolLog' = Append(toolLog, onToolEnd(b[i]))
        /\ AwaitAll(b)
        /\ UNCHANGED <<response, finalResponse, streamed, returned>>

\* result = await tool.execute(...): the executor's promise resolves
ExecutorResolves ==
    /\ aPc = "executing"
    /\ \E i \in 1..Len(batch) :
         /\ batch[i].st = "running"
         /\ \E r \in ExecutorResults(batch[i].name, batch[i].args) : Settle(i, "resolved", r)
    /\ UNCHANGED notAgent

\* the executor throws or its promise rejects: catch (e) { result = `Error: ...` }
ExecutorRejects ==
    /\ aPc = "executing"
    /\ \E i \in 1..Len(batch), e \in Thrown :
         batch[i].st = "running" /\ Settle(i, "rejected", e)
    /\ UNCHANGED notAgent

\* Time passes while Promise.all is awaited; no timer is armed in the loop
Tick ==
    /\ aPc = "executing"
    /\ elapsed < MaxTicks * TickMs
    /\ elapsed' = elapsed + TickMs
    /\ UNCHANGED <<aPc, sent, response, finalResponse, streamed, batch, toolLog, returned>>
    /\ UNCHANGED notAgent

\* let response = await chat.sendMessage({ message: messageToSend })
AgentInit ==
    /\ aPc = "requesting"
    /\ sent = << <<[text |-> "..."]>> >>
    /\ response = <<>>
    /\ finalResponse = ""
    /\ streamed = <<>>
    /\ batch = <<>>
    /\ toolLog = <<>>
    /\ returned = <<>>
    /\ elapsed = 0

AgentIdle ==
    /\ aPc = "none"
    /\ sent = <<>>
    /\ response = <<>>
    /\ finalResponse = ""
    /\ streamed = <<>>
    /\ batch = <<>>
    /\ toolLog = <<>>
    /\ returned = <<>>
    /\ elapsed = 0

AgentNext ==
    \/ ProviderNoContent
    \/ ProviderAnswers
    \/ ProviderCallsTools
    \/ ProviderFails
    \/ ExecutorResolves
    \/ ExecutorRejects
    \/ Tick

----------------------------------------------------------------------------
(* executeToolWithTimeout *)

\* The tools and arguments of the modelled calls
ToolDefinitions == [name : {"echo", "grep"}, execute : BOOLEAN]
ToolArgs == {"hello", "x"}

\* { toolCallId: '', result: `Error: Tool ${tool.name} has no executor`, isError: true }
NoExecutorResult(t) ==
    [toolCallId |-> "", result |-> "Error: Tool " \o t.name \o " has no executor",
     isError |-> TRUE]

\* .then((res: string) => ({ toolCallId: '', result: res }))
ThenResult(res) == [toolCallId |-> "", result |-> res]

\* resolve({ toolCallId: '', result: 'Error: timeout', isError: true })
TimeoutResult == [toolCallId |-> "", result |-> "Error: timeout", isError |-> TRUE]

Resolved(v) == <<[kind |-> "resolved", value |-> v]>>
Rejected(e) == <<[kind |-> "rejected", value |-> e]>>

\* Promise.race([p, timeout]): the first promise to settle settles the race,
\* a later one changes nothing
Race(now, outcome) == IF now = <<>> THEN outcome ELSE now

\* if (!tool.execute) return { ... has no executor ... }
CallWithoutExecutor ==
    /\ xPc = "called"
    /\ ~tool.execute
    /\ xPc' = "ended"
    /\ settlement' = Resolved(NoExecutorResult(tool))
    /\ UNCHANGED <<tool, toolArgs, execution, timeout, waited>>
    /\ UNCHANGED notExec

\* tool.execute(args) throws before it returns a promise: the async function
\* ends there and its promise is rejected with what was thrown
CallExecutorThrows ==
    /\ xPc = "called"
    /\ tool.execute
    /\ \E e \in Thrown :
         /\ execution' = "threw"
         /\ settlement' = Rejected(e)
    /\ xPc' = "ended"
    /\ UNCHANGED <<tool, toolArgs, timeout, waited>>
    /\ UNCHANGED notExec

\* tool.execute(args) returns a promise, the timer is set and the race returned
CallExecutorStarts ==
    /\ xPc = "called"
    /\ tool.execute
    /\ execution' = "pending"
    /\ timeout' = "armed"
    /\ xPc' = "racing"
    /\ UNCHANGED <<tool, toolArgs, waited, settlement>>
    /\ UNCHANGED notExec

\* The executor's promise resolves: p resolves with { toolCallId: '', result: res }
ExecutionResolves ==
    /\ xPc = "racing"
    /\ execution = "pending"
    /\ \E res \in ExecutorResults(tool.name, toolArgs) :
         /\ execution' = "resolved"
         /\ settlement' = Race(settlement, Resolved(ThenResult(res)))
    /\ UNCHANGED <<xPc, tool, toolArgs, timeout, waited>>
    /\ UNCHANGED notExec

\* The executor's promise rejects: then() has no rejection handler, p rejects
\* with the same reason
ExecutionRejects ==
    /\ xPc = "racing"
    /\ execution = "pending"
    /\ \E e \in Thrown :
         /\ execution' = "rejected"
         /\ settlement' = Race(settlement, Rejected(e))
    /\ UNCHANGED <<xPc, tool, toolArgs, timeout, waited>>
    /\ UNCHANGED notExec

\* setTimeout(..., timeoutMs) fires: the timer is never cleared, so it fires
\* also when the race is settled already
TimeoutFires ==
    /\ xPc = "racing"
    /\ timeout = "armed"
    /\ waited >= timeoutMs
    /\ timeout' = "fired"
    /\ settlement' = Race(settlement, Resolved(TimeoutResult))
    /\ UNCHANGED <<xPc, tool, toolArgs, execution, waited>>
    /\ UNCHANGED notExec

\* Time passes
ExecTick ==
    /\ xPc = "racing"
    /\ waited < MaxTicks * TickMs
    /\ waited' = waited + TickMs
    /\ UNCHANGED <<xPc, tool, toolArgs, execution, timeout, settlement>>
    /\ UNCHANGED notExec

\* executeToolWithTimeout(tool, args) is called
ExecInit ==
    /\ xPc = "called"
    /\ tool \in ToolDefinitions
    /\ toolArgs \in ToolArgs
    /\ execution = "absent"
    /\ timeout = "unset"
    /\ waited = 0
    /\ settlement = <<>>

\* executeToolWithTimeout is not in use
ExecIdle ==
    /\ xPc = "none"
    /\ tool = [name |-> "echo", execute |-> FALSE]
    /\ toolArgs = "x"
    /\ execution = "absent"
    /\ timeout = "unset"
    /\ waited = 0
    /\ settlement = <<>>

ExecNext ==
    \/ CallWithoutExecutor
    \/ CallExecutorThrows
    \/ CallExecutorStarts
    \/ ExecutionResolves
    \/ ExecutionRejects
    \/ TimeoutFires
    \/ ExecTick

----------------------------------------------------------------------------
(* FileSyncService *)

\* The paths of the modelled calls: two that are synced and one that the
\* default excludePatterns ('*.log') shut out
SyncedPaths == {"a.ts", "b.ts"}
ExcludedPaths == {"x.log"}

\* shouldSync(path), under the default patterns
shouldSync(p) == p \notin ExcludedPaths

\* The contents of the modelled calls, as UTF-16 code units: "a" and "b"
FileContents == {<<97>>, <<98>>}

\* hashContent(content): hash = ((hash << 5) - hash) + char; hash = hash & hash,
\* that is 31 * hash + char in 32-bit two's complement.  The hash is kept as
\* its bit pattern <<high 16 bits, low 16 bits>>, which stands one to one for
\* the number and for its hexadecimal text.
RECURSIVE hashContent(_)
hashContent(c) ==
    IF c = <<>> THEN <<0, 0>>
    ELSE LET h == hashContent(Front(c))
             lo == 31 * h[2] + Last(c)
         IN  <<(31 * h[1] + lo \div 65536) % 65536, lo % 65536>>

\* A FileEntry; lastModified, which nothing reads in a push, is left out
FileEntry(p, c, dirty) ==
    [path |-> p, content |-> c, hash |-> hashContent(c), isDirty |-> dirty]

NoFile == <<>>

\* map.set(path, entry) on a Map kept as the sequence of its entries
MapSet(m, e) ==
    IF \E i \in 1..Len(m) : m[i].path = e.path
    THEN [i \in 1..Len(m) |-> IF m[i].path = e.path THEN e ELSE m[i]]
    ELSE Append(m, e)

\* result.synced.forEach((path) => this.pendingChanges.delete(path))
DeleteSynced(m, synced) ==
    SelectSeq(m, LAMBDA e : \A i \in 1..Len(synced) : synced[i] # e.path)

\* [...this.pendingChanges.keys()]
Keys(m) == [i \in 1..Len(m) |-> m[i].path]

\* const result: SyncResult = { success: true, synced: [], conflicts: [], errors: [] }
NewResult == [success |-> TRUE, synced |-> <<>>, conflicts |-> <<>>, errors |-> <<>>]

\* The result a sync() call returns while another sync is in progress
AlreadySyncing ==
    [success |-> FALSE, synced |-> <<>>, conflicts |-> <<>>,
     errors |-> <<[path |-> "", error |-> "Sync already in progress"]>>]

\* syncFile(path, 'push') reaches await this.writeRemoteFile(path, local.content):
\* the path is held locally, and either has no remote entry or one of another
\* hash (conflictResolution 'local'); in every other case syncFile returns
\* { synced: false } without an await on a handler.
WritesRemote(p) ==
    /\ localFiles[p] # NoFile
    /\ \/ remoteFiles[p] = NoFile
       \/ localFiles[p][1].hash # remoteFiles[p][1].hash

\* for (const path of paths) { ... await this.syncFile(path, direction) ... } from
\* the head of paths to the next await on a handler, or through the end of
\* the loop and the finally block
Continue(paths, res, pend, evs) ==
    IF \E i \in 1..Len(paths) : WritesRemote(paths[i])
    THEN LET i == CHOOSE k \in 1..Len(paths) :
                    WritesRemote(paths[k]) /\ \A j \in 1..(k - 1) : ~WritesRemote(paths[j])
         IN  /\ syncRun' = <<[awaited |-> paths[i], local |-> localFiles[paths[i]][1],
                              paths |-> SubSeq(paths, i + 1, Len(paths)), result |-> res]>>
             /\ isSyncing' = TRUE
             /\ pendingChanges' = pend
             /\ syncEvents' = evs
    ELSE /\ syncRun' = <<>>
         /\ isSyncing' = FALSE
         /\ pendingChanges' = DeleteSynced(pend, res.synced)
         /\ syncEvents' = Append(evs, [type |-> "sync-complete", payload |-> res])

\* The syncs started so far
Started == Len(SelectSeq(syncEvents, LAMBDA e : e.type = "sync-start"))

\* Mutant of sync: a call made during a sync is not refused and starts over.
syncUnguarded ==
    /\ Started < MaxSyncs
    /\ Continue(Keys(pendingChanges), NewResult, pendingChanges,
                Append(syncEvents, [type |-> "sync-start", payload |-> "push"]))
    /\ UNCHANGED <<localFiles, remoteFiles, refusal, remoteStore, tracked>>

\* sync('push')
sync ==
    IF isSyncing
    THEN /\ refusal' = <<AlreadySyncing>>
         /\ UNCHANGED <<localFiles, remoteFiles, pendingChanges, isSyncing, syncRun,
                        syncEvents, remoteStore, tracked>>
    ELSE /\ Started < MaxSyncs
         /\ Continue(Keys(pendingChanges), NewResult, pendingChanges,
                     Append(syncEvents, [type |-> "sync-start", payload |-> "push"]))
         /\ UNCHANGED <<localFiles, remoteFiles, refusal, remoteStore, tracked>>

\* trackLocalChange(path, content), autoSync on: the debounce timer is set anew
TrackLocalChange ==
    /\ tracked < MaxChanges
    /\ tracked' = tracked + 1
    /\ \E p \in SyncedPaths \cup ExcludedPaths, c \in FileContents :
         IF shouldSync(p)
         THEN /\ localFiles' = [localFiles EXCEPT ![p] = <<FileEntry(p, c, TRUE)>>]
              /\ pendingChanges' = MapSet(pendingChanges, FileEntry(p, c, TRUE))
              /\ syncTimer' = "armed"
         ELSE UNCHANGED <<localFiles, pendingChanges, syncTimer>>
    /\ UNCHANGED <<remoteFiles, isSyncing, syncRun, syncEvents, refusal, remoteStore>>
    /\ UNCHANGED notSync

\* The debounce timer fires: this.sync('push')
TimerFires ==
    /\ syncTimer = "armed"
    /\ syncTimer' = "fired"
    /\ sync
    /\ UNCHANGED notSync

\* The consumer calls sync('push')
CallSync ==
    /\ sync
    /\ UNCHANGED syncTimer
    /\ UNCHANGED notSync

\* await this.writeRemoteFile(path, local.content) resolves:
\* this.remoteFiles.set(path, { ...local, isDirty: false }); return { synced: true }
WriteResolves ==
    /\ syncRun # <<>>
    /\ LET r == syncRun[1]
       IN  /\ remoteStore' = [remoteStore EXCEPT ![r.awaited] = <<r.local.content>>]
           /\ remoteFiles' = [remoteFiles EXCEPT
                                ![r.awaited] = <<[r.local EXCEPT !.isDirty = FALSE]>>]
           /\ Continue(r.paths, [r.result EXCEPT !.synced = Append(@, r.awaited)],
                       pendingChanges, syncEvents)
    /\ UNCHANGED <<localFiles, syncTimer, refusal, tracked>>
    /\ UNCHANGED notSync

\* await this.writeRemoteFile(...) rejects: the catch block of the loop
\* records the error and the loop goes on
WriteRejects ==
    /\ syncRun # <<>>
    /\ LET r == syncRun[1]
       IN  \E e \in Thrown :
             Continue(r.paths,
                      [r.result EXCEPT
                         !.errors = Append(@, [path |-> r.awaited,
                                               error |-> IF e.isError THEN e.message
                                                         ELSE "Unknown error"]),
                         !.success = FALSE],
                      pendingChanges, syncEvents)
    /\ UNCHANGED <<localFiles, remoteFiles, syncTimer, refusal, remoteStore, tracked>>
    /\ UNCHANGED notSync

\* new FileSyncService() with setHandlers({ writeRemote })
SyncInit ==
    /\ localFiles = [p \in SyncedPaths \cup ExcludedPaths |-> NoFile]
    /\ remoteFiles = [p \in SyncedPaths \cup ExcludedPaths |-> NoFile]
    /\ pendingChanges = <<>>
    /\ syncTimer = "null"
    /\ isSyncing = FALSE
    /\ syncRun = <<>>
    /\ syncEvents = <<>>
    /\ refusal = <<>>
    /\ remoteStore = [p \in SyncedPaths \cup ExcludedPaths |-> NoFile]
    /\ tracked = 0

\* No FileSyncService is in use
SyncIdle == SyncInit

SyncNext ==
    \/ TrackLocalChange
    \/ TimerFires
    \/ CallSync
    \/ WriteResolves
    \/ WriteRejects

----------------------------------------------------------------------------
(* CodeServerBridge *)

\* config.host and config.port, the defaults of the constructor
host == "localhost"
port == "8080"

\* An origin is kept as the pieces of its text, the host name being one piece,
\* so that a test for the host name inside the text is a test for the piece.
\* const expectedOrigin = `http://${this.config.host}:${this.config.port}`
expectedOrigin == <<"http://", host, ":", port>>

\* The origins of the modelled window messages: the editor's, another port of
\* the same host, another host whose name begins with the editor's, and a
\* host that has nothing of it
Origins ==
    { expectedOrigin,
      <<"http://", "localhost", ":", "3000">>,
      <<"https://", "localhost", ".evil.example">>,
      <<"https://", "evil.example">> }

\* event.origin.includes(this.config.host || 'localhost')
OriginIncludes(origin, h) == \E i \in 1..Len(origin) : origin[i] = h

EditorPaths == {"a.ts", "b.ts"}

\* The data of the modelled window messages; the first has no type
BridgeData ==
    { [payload |-> EmptyObject],
      [type |-> "ready", payload |-> EmptyObject],
      [type |-> "file-change", payload |-> [path |-> "a.ts", isDirty |-> TRUE]],
      [type |-> "file-save", payload |-> [path |-> "a.ts"]],
      [type |-> "selection-change", payload |-> [path |-> "a.ts", text |-> "x"]] }
    \cup { [type |-> "file-open", payload |-> [path |-> p]] : p \in EditorPaths }
    \cup { [type |-> "file-close", payload |-> [path |-> p]] : p \in EditorPaths }

\* The event types the consumer registers a listener for
ListenedTypes == {"ready", "file-open"}

\* array.filter((f) => f !== path)
Without(files, path) == SelectSeq(files, LAMBDA f : f # path)

\* array.includes(path)
Includes(files, path) == \E i \in 1..Len(files) : files[i] = path

\* updateState(event); an optional field is <<>> or <<value>>
updateState(es, event) ==
    LET path == event.payload.path IN
    CASE event.type = "file-open" ->
           [es EXCEPT !.activeFile = <<path>>,
                      !.openFiles = IF Includes(@, path) THEN @ ELSE Append(@, path)]
      [] event.type = "file-close" ->
           LET open == Without(es.openFiles, path)
           IN  [es EXCEPT !.openFiles = open,
                          !.activeFile = IF @ = <<path>>
                                         THEN (IF open = <<>> THEN <<>> ELSE <<open[1]>>)
                                         ELSE @]
      [] event.type = "file-change" ->
           [es EXCEPT !.dirtyFiles = IF event.payload.isDirty /\ ~Includes(@, path)
                                     THEN Append(@, path) ELSE @]
      [] event.type = "file-save" ->
           [es EXCEPT !.dirtyFiles = Without(@, path)]
      [] event.type = "selection-change" ->
           [es EXCEPT !.selection = <<event.payload>>]
      [] OTHER -> es

\* What sendMessage and flushMessageQueue read and write
Channel ==
    [isReady |-> isReady, iframe |-> iframe, messageQueue |-> messageQueue,
     posted |-> posted]

\* sendMessage(type, payload), the message being { type, payload }
sendMessage(ch, message) ==
    IF ~ch.isReady THEN [ch EXCEPT !.messageQueue = Append(@, message)]
    ELSE IF ch.iframe = "window" THEN [ch EXCEPT !.posted = Append(@, message)]
    ELSE ch

\* Mutant of flushMessageQueue: the queue is emptied from its end.
RECURSIVE flushMessageQueueFromEnd(_)
flushMessageQueueFromEnd(ch) ==
    IF ch.messageQueue = <<>> THEN ch
    ELSE flushMessageQueueFromEnd(
             [ch EXCEPT !.messageQueue = Front(@),
                        !.posted = IF ch.iframe = "window"
                                   THEN Append(@, Last(ch.messageQueue)) ELSE @])

\* flushMessageQueue(): while (length > 0) { shift(); postMessage }
RECURSIVE flushMessageQueue(_)
flushMessageQueue(ch) ==
    IF ch.messageQueue = <<>> THEN ch
    ELSE flushMessageQueue(
             [ch EXCEPT !.messageQueue = Tail(@),
                        !.posted = IF ch.iframe = "window"
                                   THEN Append(@, Head(ch.messageQueue)) ELSE @])

\* The message of goToLine(line), column 1; the consumer and its 'ready'
\* listener number their calls: the n-th call made goes to line n
goToLine(line) == [type |-> "go-to-line", payload |-> [line |-> line, column |-> 1]]

NextLine == Len(sendLog) + 1

\* The 'ready' listener of the consumer calls goToLine
ReadyListenerSends(data) == data.type = "ready" /\ "ready" \in eventListeners

\* handleMessage(event) past the two early returns: updateState, emit, and
\* for 'ready' the flag, the status and the flush
Accept(data) ==
    LET emitted == IF ReadyListenerSends(data)
                   THEN sendMessage(Channel, goToLine(NextLine))
                   ELSE Channel
        ch == IF data.type = "ready"
              THEN flushMessageQueue([emitted EXCEPT !.isReady = TRUE])
              ELSE emitted
    IN  /\ ReadyListenerSends(data) => Len(sendLog) < MaxSends
        /\ editorState' = updateState(editorState, data)
        /\ called' = IF data.type \in eventListeners THEN called + 1 ELSE called
        /\ sendLog' = IF ReadyListenerSends(data)
                      THEN Append(sendLog, [message |-> goToLine(NextLine),
                                            by |-> "listener"])
                      ELSE sendLog
        /\ isReady' = ch.isReady
        /\ running' = (running \/ data.type = "ready")
        /\ messageQueue' = ch.messageQueue
        /\ posted' = ch.posted

\* initialize(iframe)
Initialize ==
    /\ iframe = "null"
    /\ \E el \in {"window", "detached"} : iframe' = el
    /\ listening' = TRUE
    /\ UNCHANGED <<eventListeners, editorState, messageQueue, isReady, running, posted,
                   sendLog, called, handled, lastOrigin>>
    /\ UNCHANGED notBridge

\* on(event, callback)
On ==
    /\ \E t \in ListenedTypes \ eventListeners : eventListeners' = eventListeners \cup {t}
    /\ UNCHANGED <<iframe, listening, editorState, messageQueue, isReady, running, posted,
                   sendLog, called, handled, lastOrigin>>
    /\ UNCHANGED notBridge

\* The consumer calls goToLine(line)
GoToLine ==
    /\ Len(sendLog) < MaxSends
    /\ LET ch == sendMessage(Channel, goToLine(NextLine))
       IN  /\ messageQueue' = ch.messageQueue
           /\ posted' = ch.posted
    /\ sendLog' = Append(sendLog, [message |-> goToLine(NextLine), by |-> "consumer"])
    /\ UNCHANGED <<iframe, listening, eventListeners, editorState, isReady, running,
                   called, handled, lastOrigin>>
    /\ UNCHANGED notBridge

\* A message event of the window is delivered: handleMessage(event)
HandleMessage ==
    /\ listening
    /\ handled < MaxMessages
    /\ handled' = handled + 1
    /\ \E origin \in Origins, data \in BridgeData :
         /\ lastOrigin' = origin
         /\ IF OriginIncludes(origin, host) /\ Has(data, "type")
            THEN Accept(data)
            ELSE UNCHANGED <<editorState, messageQueue, isReady, running, posted,
                             sendLog, called>>
    /\ UNCHANGED <<iframe, listening, eventListeners>>
    /\ UNCHANGED notBridge

\* new CodeServerBridge()
BridgeInit ==
    /\ iframe = "null"
    /\ listening = FALSE
    /\ eventListeners = {}
    /\ editorState = [activeFile |-> <<>>, openFiles |-> <<>>, dirtyFiles |-> <<>>,
                      selection |-> <<>>]
    /\ messageQueue = <<>>
    /\ isReady = FALSE
    /\ running = FALSE
    /\ posted = <<>>
    /\ sendLog = <<>>
    /\ called = 0
    /\ handled = 0
    /\ lastOrigin = <<>>

\* No CodeServerBridge is in use
BridgeIdle == BridgeInit

BridgeNext ==
    \/ Initialize
    \/ On
    \/ GoToLine
    \/ HandleMessage

----------------------------------------------------------------------------
(* The tool-call buffer as a fold of the fragments *)

\* The fragments of the turn that carry the id, in arrival order
FragSeq(id) ==
    LET cs == SelectSeq(Turn, LAMBDA c :
                  /\ c.type = "tool_call"
                  /\ Has(c.toolCall, "id")
                  /\ c.toolCall.id = id)
    IN  [i \in 1..Len(cs) |-> cs[i].toolCall]

\* One step of the fold: the fields of the fragment overwrite those held, the
\* fields it does not carry are kept, and arguments carried by both are
\* united key by key, the fragment's value winning on a shared key
MergeFragment(held, frag) ==
    [ k \in DOMAIN held \cup DOMAIN frag |->
        IF k = "arguments" /\ k \in DOMAIN held /\ k \in DOMAIN frag
        THEN { kv \in held.arguments : \A kw \in frag.arguments : kw[1] # kv[1] }
                \cup frag.arguments
        ELSE IF k \in DOMAIN frag THEN frag[k] ELSE held[k] ]

RECURSIVE FoldFragments(_)
FoldFragments(frs) ==
    IF frs = <<>> THEN EmptyObject
    ELSE MergeFragment(FoldFragments(Front(frs)), Last(frs))

\* The ids a fragment may carry
FragmentIds == { f.id : f \in { g \in ToolCallFragments : Has(g, "id") } }

\* The entries of the buffer held for the id
EntriesOf(id) == { i \in 1..Len(toolCallBuffer) : toolCallBuffer[i].id = id }

\* C20: the buffer holds an entry exactly for the ids that had a fragment
\* since the last reset, one each, and the partial call of an id is the left
\* fold of that id's fragments in arrival order; fragments of other ids and
\* fragments without an id have no part in it.
C20_BufferIsFold ==
    /\ \A i \in 1..Len(toolCallBuffer) : toolCallBuffer[i].id \in FragmentIds
    /\ \A id \in FragmentIds :
          IF FragSeq(id) = <<>>
          THEN EntriesOf(id) = {}
          ELSE /\ Cardinality(EntriesOf(id)) = 1
               /\ BufferGet(toolCallBuffer, id) = FoldFragments(FragSeq(id))

\* C20 witness: the id "1" got the arguments a=2, b=1, then a fragment of the
\* id "2" and one without an id came, then "1" got a=1: it holds a=1, b=1.
C20_Witness ==
    /\ Len(Turn) = 4
    /\ Turn[1] = [type |-> "tool_call",
                  toolCall |-> [id |-> "1", arguments |-> {<<"a", 2>>, <<"b", 1>>}]]
    /\ Turn[2].type = "tool_call" /\ Has(Turn[2].toolCall, "id") /\ Turn[2].toolCall.id = "2"
    /\ Turn[3].type = "tool_call" /\ ~Has(Turn[3].toolCall, "id")
    /\ Turn[4] = [type |-> "tool_call", toolCall |-> [id |-> "1", arguments |-> {<<"a", 1>>}]]
    /\ BufferGet(toolCallBuffer, "1") = [id |-> "1", arguments |-> {<<"a", 1>>, <<"b", 1>>}]

----------------------------------------------------------------------------
(* The reading of the parser tests: one event per data: line *)

\* The events of a body taken line by line: the value of every data: line that
\* holds a JSON value, up to the first data: line that holds [DONE]
RECURSIVE LineEvents(_)
LineEvents(lines) ==
    IF lines = <<>> THEN <<>>
    ELSE IF ~IsData(Head(lines)) THEN LineEvents(Tail(lines))
    ELSE IF Payload(Head(lines)) = DoneMarker THEN <<>>
    ELSE (IF JSONParse(Payload(Head(lines))).ok
          THEN <<JSONParse(Payload(Head(lines))).val>> ELSE <<>>)
         \o LineEvents(Tail(lines))

\* C18: parseSSE yields one event for every data: line that carries a JSON
\* value, in line order, with or without blank lines between them; a line
\* with invalid JSON is skipped and a data: [DONE] line ends the sequence.
C18_EventPerDataLine == Finished("sse") => out = LineEvents(doc.lines)

----------------------------------------------------------------------------
(* Claims about the agent's tool loop *)

\* The timeout has passed since call i was dispatched and its executor has
\* not settled
Overdue(i) ==
    /\ batch[i].executor = "pending"
    /\ elapsed > timeoutMs

\* C10: a tool call whose executor has not settled when the timeout has
\* passed has the result "Error: timeout" and no longer holds the turn: no
\* call of a batch is still awaited beyond the timeout.
C10_TimeoutResolvesCall ==
    \A i \in 1..Len(batch) :
        Overdue(i) => batch[i].st = "settled" /\ batch[i].result = "Error: timeout"

\* The text the loop takes from a response: that of its first non-empty
\* text part, "" when it has none
ResponseText(r) == IF FirstText(r.texts) = <<>> THEN "" ELSE FirstText(r.texts)[1]

\* The in-order concatenation of a sequence of texts
RECURSIVE ConcatAll(_)
ConcatAll(ts) == IF ts = <<>> THEN "" ELSE ConcatAll(Front(ts)) \o Last(ts)

\* The result of call c is the outcome of its executor
IsOutcome(c) ==
    /\ c.st = "settled"
    /\ c.executor = "resolved" => c.result \in ExecutorResults(c.name, c.args)
    /\ c.executor = "rejected" => c.result \in {ErrorResult(e) : e \in Thrown}
    /\ c.executor = "absent" => c.result = ToolNotFound
    /\ c.executor # "pending"

\* The batch in hand is that of the calls of the last response: one entry per
\* call, in order, with the call's name and arguments, its executor invoked
\* exactly when a tool of that name is declared
BatchOfResponse ==
    /\ response # <<>>
    /\ response[1].calls # <<>>
    /\ Len(batch) = Len(response[1].calls)
    /\ \A i \in 1..Len(batch) :
          /\ batch[i].name = response[1].calls[i].name
          /\ batch[i].args = response[1].calls[i].args
          /\ Known(batch[i].name) <=> batch[i].executor # "absent"

\* The last request carries the outcomes of the whole batch, in order
OutcomesSent ==
    /\ Len(Last(sent)) = Len(batch)
    /\ \A i \in 1..Len(batch) :
          /\ IsOutcome(batch[i])
          /\ Last(sent)[i].functionResponse.name = batch[i].name
          /\ Last(sent)[i].functionResponse.response.result = batch[i].result

C11_Inv ==
    /\ aPc = "executing" => BatchOfResponse /\ ~AllSettled(batch)
    /\ aPc = "requesting" /\ Len(sent) > 1 => BatchOfResponse /\ OutcomesSent
    /\ aPc = "returned" =>
          /\ response # <<>>
          /\ response[1].calls = <<>>
          /\ AllSettled(batch)
          /\ returned = <<finalResponse>>
          /\ finalResponse = ConcatAll(streamed)
          /\ ResponseText(response[1]) # "" => Last(streamed) = ResponseText(response[1])

C11_Step ==
    /\ aPc = "requesting" => aPc' \in {"requesting", "executing", "returned", "caught"}
    /\ aPc = "executing" => aPc' \in {"executing", "requesting"}
    /\ aPc = "returned" => aPc' = "returned" /\ sent' = sent /\ toolLog' = toolLog
    /\ sent' # sent =>
          /\ aPc' = "requesting"
          /\ Len(sent') = Len(sent) + 1
          /\ AllSettled(batch')

\* C11 (original): when a response carries no tool call, the loop returns the
\* text of that response.
C11_ReturnsLastText ==
    aPc = "returned" => returned = <<ResponseText(response[1])>>

\* C11 (amended): the loop goes Requesting -> (Done | Executing -> Requesting).
\* While a batch is executing it is the batch of the calls of the last
\* response, each with its name and arguments and its executor invoked; the
\* next request is sent only when every call has settled and carries all the
\* outcomes in order.  A response without tool calls ends the loop: no request
\* and no tool callback follows, and the value returned is the concatenation
\* of the texts streamed in the turn, the text of that response last.
C11_AgentLoop == []C11_Inv /\ [][C11_Step]_vars

\* C11 witness: a batch of two calls was executed, its outcomes were sent, and
\* the answer to that request ended the turn with the texts of both responses.
C11_Witness ==
    /\ aPc = "returned"
    /\ Len(sent) = 2
    /\ Len(batch) = 2
    /\ batch[1].executor = "resolved"
    /\ batch[2].executor = "rejected"
    /\ streamed = <<"a", "b">>
    /\ returned = <<"ab">>

\* A cap on the provider round-trips of one turn, as a caller might configure
\* it: one less than the round-trips the provider is given the chance to ask for
IterationCap == MaxRounds - 1

\* C12: the loop performs at most the configured number of provider
\* round-trips: when the provider asks for tools in every response the loop
\* stops at the cap instead of sending one more request.
C12_IterationCap == Len(sent) <= IterationCap

\* The text a thrown value is reported as: "Error: <message>" for an Error,
\* "Error: Unknown error" for any other value
ErrorText(e) == "Error: " \o (IF e.isError THEN e.message ELSE "Unknown error")

\* In this step the executor of call i is rejected
RejectedNow(i) ==
    /\ i \in DOMAIN batch'
    /\ batch[i].executor = "pending"
    /\ batch'[i].executor = "rejected"

C13_Inv ==
    /\ \A i \in 1..Len(batch) :
          batch[i].executor = "rejected" =>
              /\ batch[i].st = "settled"
              /\ batch[i].result = ErrorText(batch[i].settledWith[1])
    /\ (aPc = "requesting" /\ Len(sent) > 1) => OutcomesSent

C13_Step ==
    \A i \in 1..Len(batch) :
        RejectedNow(i) =>
            /\ returned' = <<>>
            /\ \A j \in 1..Len(batch) : j # i => batch'[j] = batch[j]
            /\ IF AllSettled(batch')
               THEN aPc' = "requesting" /\ sent' = Append(sent, toolResponses(batch'))
               ELSE aPc' = "executing" /\ sent' = sent

\* C13: an executor that throws or rejects gives its call the outcome
\* "Error: <message>" and aborts nothing: the turn does not return, the other
\* calls of the batch keep their state and their own results, and when the
\* last call has settled the provider is asked again with all the outcomes.
C13_ExecutorErrorIsolated == []C13_Inv /\ [][C13_Step]_vars

\* C13 witness: the first of two calls was rejected with the Error "boom"
\* while its sibling was running; the sibling resolved afterwards and both
\* outcomes went to the provider.
C13_Witness ==
    /\ aPc = "requesting"
    /\ Len(sent) = 2
    /\ Len(batch) = 2
    /\ batch[1].executor = "rejected"
    /\ batch[1].settledWith = <<[isError |-> TRUE, message |-> "boom"]>>
    /\ batch[2].executor = "resolved"
    /\ Len(toolLog) = 4
    /\ toolLog[3] = [cb |-> "onToolEnd", id |-> batch[1].id, result |-> "Error: boom"]
    /\ toolLog[4].cb = "onToolEnd" /\ toolLog[4].result = batch[2].result
    /\ Last(sent)[1].functionResponse.response.result = "Error: boom"
    /\ Last(sent)[2].functionResponse.response.result = batch[2].result

\* C14: a call of a name that no tool declares has no executor invoked and
\* the outcome "Error: Tool <name> not found", <name> being the name called.
C14_ToolNotFoundNamesTool ==
    \A i \in 1..Len(batch) :
        ~Known(batch[i].name) =>
            /\ batch[i].executor = "absent"
            /\ batch[i].result = "Error: Tool " \o batch[i].name \o " not found"

\* C15: every tool result sent to the provider carries the id of the tool
\* call that caused it.
C15_ResultCarriesCallId ==
    (aPc = "requesting" /\ Len(sent) > 1) =>
        \A i \in 1..Len(Last(sent)) :
            LET fr == Last(sent)[i].functionResponse
            IN  /\ i \in 1..Len(batch)
                /\ "id" \in DOMAIN fr
                /\ fr.id = batch[i].id

\* The texts a turn can return as the model's answer: the concatenations of
\* the texts of at most MaxRounds responses
AnswerTexts ==
    LET Firsts == {ResponseText(Response(t, <<>>)) : t \in Texts}
    IN  {ConcatAll(ts) : ts \in UNION {[1..k -> Firsts] : k \in 0..MaxRounds}}

\* C16: a failure of the provider request reaches the caller as an outcome
\* that differs from every successful answer: the value the turn resolves to
\* after a failed request is not one it can resolve to after a model answer.
C16_FailureToldApart ==
    aPc = "caught" => returned[1] \notin AnswerTexts

\* C17: the tool responses of a batch are one per call of the response, in
\* the calls' order: the i-th names the i-th call and holds the outcome of
\* that call's executor on that call's arguments (its value, or the error
\* text of what it threw), whatever the order in which the executors settled.
C17_ResultsInCallOrder ==
    (aPc = "requesting" /\ Len(sent) > 1) =>
        LET calls == response[1].calls
            results == Last(sent)
        IN  /\ Len(results) = Len(calls)
            /\ Len(batch) = Len(calls)
            /\ \A i \in 1..Len(calls) :
                  /\ results[i].functionResponse.name = calls[i].name
                  /\ batch[i].executor = "resolved" =>
                        /\ batch[i].settledWith[1] \in ExecutorResults(calls[i].name, calls[i].args)
                        /\ results[i].functionResponse.response.result = batch[i].settledWith[1]
                  /\ batch[i].executor = "rejected" =>
                        results[i].functionResponse.response.result
                            = ErrorText(batch[i].settledWith[1])
                  /\ Known(calls[i].name) => batch[i].executor \in {"resolved", "rejected"}

\* C17 witness: of two calls of different tools the second settled first, and
\* the results went out in the order of the calls.
C17_Witness ==
    /\ aPc = "requesting"
    /\ Len(sent) = 2
    /\ response[1].calls = << [name |-> "switch_agent", args |-> "coder"],
                              [name |-> "list_directory", args |-> "src"] >>
    /\ Len(toolLog) = 4
    /\ toolLog[3] = [cb |-> "onToolEnd", id |-> batch[2].id, result |-> "list_directory(src)"]
    /\ toolLog[4] = [cb |-> "onToolEnd", id |-> batch[1].id, result |-> "switch_agent(coder)"]
    /\ Last(sent)[1].functionResponse.response.result = "switch_agent(coder)"
    /\ Last(sent)[2].functionResponse.response.result = "list_directory(src)"

\* C19: whenever the turn has completed, the string it returned is the
\* in-order concatenation of the texts given to onStream.
C19_ReturnedIsStreamed ==
    returned # <<>> => returned[1] = ConcatAll(streamed)

----------------------------------------------------------------------------
(* Claims about StreamProcessor: done, error, reset and the buffers *)

\* The partial call the fragments of the turn amount to for the id
Held(id) == FoldFragments(FragSeq(id))

\* Both fields are set, as the code tests them: a name that is not the empty
\* string, and an arguments mapping
HasBoth(held) ==
    /\ Has(held, "name")
    /\ held.name # ""
    /\ Has(held, "arguments")

\* The callbacks called in this step
NewCallbacks == SubSeq(callbacks', Len(callbacks) + 1, Len(callbacks'))

\* This step processes a chunk of the type
Processes(type) ==
    /\ Len(history') = Len(history) + 1
    /\ Last(history').type = type

C21_Step ==
    Processes("done") =>
        /\ SubSeq(callbacks', 1, Len(callbacks)) = callbacks
        /\ \A k \in 1..Len(NewCallbacks) :
              /\ NewCallbacks[k][1] = "onToolCall"
              /\ NewCallbacks[k][2].id \in FragmentIds
        /\ \A id \in FragmentIds :
              LET ks == { k \in 1..Len(NewCallbacks) : NewCallbacks[k][2].id = id }
              IN  IF HasBoth(Held(id))
                  THEN /\ Cardinality(ks) = 1
                       /\ \A k \in ks :
                             NewCallbacks[k][2] =
                                 [id |-> id, name |-> Held(id).name,
                                  arguments |-> Held(id).arguments]
                  ELSE ks = {}
        /\ <<textBuffer', thinkingBuffer', toolCallBuffer', usage'>>
              = <<textBuffer, thinkingBuffer, toolCallBuffer, usage>>

C21_Getter ==
    \A i \in 1..Len(getToolCalls) : HasBoth(Held(getToolCalls[i].id))

\* C21: processing a done chunk calls onToolCall exactly once for every id
\* whose fragments have given both a name and arguments, with the merged
\* call, and calls it for no id that lacks one of them; such an id changes
\* nothing else and getToolCalls never shows it.
C21_DoneReportsComplete == [][C21_Step]_vars /\ []C21_Getter

\* C21 witness: id "1" got a name and no arguments, id "2" got both; the done
\* chunk reported "2" alone, and getToolCalls shows "2" alone.
C21_Witness ==
    /\ Len(Turn) = 3
    /\ Turn[1] = [type |-> "tool_call", toolCall |-> [id |-> "1", name |-> "echo"]]
    /\ Turn[2] = [type |-> "tool_call",
                  toolCall |-> [id |-> "2", name |-> "grep", arguments |-> {<<"a", 1>>}]]
    /\ Turn[3].type = "done"
    /\ Len(toolCallBuffer) = 2
    /\ Reported = <<[id |-> "2", name |-> "grep", arguments |-> {<<"a", 1>>}]>>
    /\ getToolCalls = Reported

\* C22: every ToolCall reported as complete, by getToolCalls or through
\* onToolCall, has a non-empty name and an arguments mapping that is not
\* empty: a call whose arguments mapping has no key is not complete.
C22_CompleteHasArguments ==
    /\ \A i \in 1..Len(getToolCalls) :
          getToolCalls[i].name # "" /\ getToolCalls[i].arguments # {}
    /\ \A k \in 1..Len(callbacks) :
          IsOnToolCall(callbacks[k]) =>
              callbacks[k][2].name # "" /\ callbacks[k][2].arguments # {}

\* A processor as its getters and its callbacks show it
Observed(text, thinking, calls, use, cbs) ==
    [getText |-> text, getThinking |-> thinking, getToolCalls |-> calls,
     getUsage |-> use, callbacks |-> cbs]

\* A processor just constructed, no chunk processed
Fresh == [text |-> <<>>, thinking |-> <<>>, buffer |-> <<>>, usage |-> <<>>, cbs |-> <<>>]

\* What processing the chunk c makes of a processor, by the chunk's type
Apply(st, c) ==
    CASE c.type = "text" ->
           IF c.content = <<>> THEN st
           ELSE [st EXCEPT !.text = @ \o c.content,
                           !.cbs = Append(@, <<"onText", c.content>>)]
      [] c.type = "thinking" ->
           IF c.content = <<>> THEN st
           ELSE [st EXCEPT !.thinking = @ \o c.content,
                           !.cbs = Append(@, <<"onThinking", c.content>>)]
      [] c.type = "tool_call" ->
           [st EXCEPT !.buffer = processToolCallChunk(@, c.toolCall)]
      [] c.type = "usage" ->
           [st EXCEPT !.usage = <<c.usage>>, !.cbs = Append(@, <<"onUsage", c.usage>>)]
      [] c.type = "error" ->
           IF c.error = "" THEN st ELSE [st EXCEPT !.cbs = Append(@, <<"onError", c.error>>)]
      [] c.type = "done" ->
           [st EXCEPT !.cbs = @ \o finalizeToolCalls(st.buffer)]

\* A fresh processor after the chunks, in order
RECURSIVE Replay(_)
Replay(chunks) ==
    IF chunks = <<>> THEN Fresh ELSE Apply(Replay(Front(chunks)), Last(chunks))

ObservedOf(st) ==
    Observed(st.text, st.thinking, CompleteCalls(st.buffer), st.usage, st.cbs)

IsErrorChunk(c) == c.type = "error"
NotErrorChunk(c) == c.type # "error"
IsOnError(c) == c[1] = "onError"
NotOnError(c) == c[1] # "onError"

\* C23 (original): every error chunk calls the error callback and changes
\* none of the buffers.
C23_ErrorInvokesCallback ==
    [][Processes("error") =>
          /\ NewCallbacks = << <<"onError", Last(history').error>> >>
          /\ <<textBuffer', thinkingBuffer', toolCallBuffer', usage'>>
                = <<textBuffer, thinkingBuffer, toolCallBuffer, usage>>]_vars

C23_Step ==
    Processes("error") =>
        /\ SubSeq(callbacks', 1, Len(callbacks)) = callbacks
        /\ NewCallbacks = IF Last(history').error = "" THEN <<>>
                          ELSE << <<"onError", Last(history').error>> >>
        /\ <<textBuffer', thinkingBuffer', toolCallBuffer', usage'>>
              = <<textBuffer, thinkingBuffer, toolCallBuffer, usage>>

\* The turn's error chunks have left no trace but their callbacks: the getters
\* and the other callbacks are those of the turn without its error chunks
C23_Inv ==
    LET st == Replay(SelectSeq(Turn, NotErrorChunk))
    IN  /\ getText = st.text
        /\ getThinking = st.thinking
        /\ toolCallBuffer = st.buffer
        /\ getUsage = st.usage
        /\ SelectSeq(TurnCallbacks, NotOnError) = st.cbs

\* C23 (amended): an error chunk that carries a message calls the error
\* callback with it, once, and one that carries none calls nothing; either
\* way the text buffer, the thinking buffer, the partial tool calls and the
\* usage stay as they were, and the chunks that follow accumulate as if the
\* error chunk had not been there.
C23_ErrorKeepsBuffers == [][C23_Step]_vars /\ []C23_Inv

\* C23 witness: text, an error chunk with a message, then text again: the
\* callback got the message and the buffer holds both texts.
C23_Witness ==
    /\ Len(Turn) = 3
    /\ Turn[1] = [type |-> "text", content |-> <<"a">>]
    /\ Turn[2] = [type |-> "error", error |-> "boom"]
    /\ Turn[3] = [type |-> "text", content |-> <<"a">>]
    /\ getText = <<"a", "a">>
    /\ TurnCallbacks = << <<"onText", <<"a">>>>, <<"onError", "boom">>, <<"onText", <<"a">>>> >>

\* The processor in hand, as its getters and the callbacks called since the
\* last reset() show it
ObservedNow == Observed(getText, getThinking, getToolCalls, getUsage, TurnCallbacks)

WasReset == \E i \in 1..Len(history) : IsResetChunk(history[i])

\* C24: a processor that was reset is observationally a fresh one: right
\* after reset() its text and thinking are empty, it has no tool call and its
\* usage is null, and after any chunks processed since, its getters and the
\* callbacks it has called are those of a newly constructed processor given
\* the same chunks; nothing from before the reset shows.
C24_ResetIsFresh ==
    WasReset =>
        /\ ObservedNow = ObservedOf(Replay(Turn))
        /\ Turn = <<>> =>
              /\ getText = <<>>
              /\ getThinking = <<>>
              /\ getToolCalls = <<>>
              /\ getUsage = <<>>

\* C24 witness: the id "1" got its name, reset() was called, then "1" got
\* arguments and a done chunk came: no call is complete and none was reported.
C24_Witness ==
    /\ Len(history) = 4
    /\ history[1] = [type |-> "tool_call", toolCall |-> [id |-> "1", name |-> "echo"]]
    /\ history[2].type = "reset"
    /\ history[3] = [type |-> "tool_call",
                     toolCall |-> [id |-> "1", arguments |-> {<<"a", 1>>}]]
    /\ history[4].type = "done"
    /\ getToolCalls = <<>>
    /\ Reported = <<>>

\* The contents of the turn's chunks of the type, concatenated in arrival order
ContentsOf(type) ==
    LET cs == SelectSeq(Turn, LAMBDA c : c.type = type)
    IN  Concat([i \in 1..Len(cs) |-> cs[i].content])

\* The deltas given to the callback in the turn, concatenated in call order
DeltasOf(cb) ==
    LET ds == SelectSeq(TurnCallbacks, LAMBDA c : c[1] = cb)
    IN  Concat([i \in 1..Len(ds) |-> ds[i][2]])

C25_Inv ==
    /\ getText = ContentsOf("text")
    /\ getText = DeltasOf("onText")
    /\ getThinking = ContentsOf("thinking")
    /\ getThinking = DeltasOf("onThinking")

C25_Step ==
    /\ (\E t \in {"tool_call", "thinking", "usage", "error", "done"} : Processes(t))
          => textBuffer' = textBuffer
    /\ (\E t \in {"tool_call", "text", "usage", "error", "done"} : Processes(t))
          => thinkingBuffer' = thinkingBuffer

\* C25: at every point of a turn getText() is the concatenation, in arrival
\* order, of the contents of the text chunks processed since construction or
\* the last reset, and of the deltas given to onText; getThinking() is the
\* same for thinking chunks and onThinking; a chunk of any other type changes
\* neither buffer.
C25_BuffersAreConcatenations == []C25_Inv /\ [][C25_Step]_vars

\* C25 witness: text, thinking, an empty text and text again: each buffer
\* holds its own contents, in order.
C25_Witness ==
    /\ Len(Turn) = 4
    /\ Turn[1] = [type |-> "text", content |-> <<"a">>]
    /\ Turn[2] = [type |-> "thinking", content |-> <<"t">>]
    /\ Turn[3] = [type |-> "text", content |-> <<>>]
    /\ Turn[4] = [type |-> "text", content |-> <<"a">>]
    /\ getText = <<"a", "a">>
    /\ getThinking = <<"t">>
    /\ TurnCallbacks = << <<"onText", <<"a">>>>, <<"onThinking", <<"t">>>>, <<"onText", <<"a">>>> >>

----------------------------------------------------------------------------
(* Claims about the agent's tool loop: concurrency of a batch *)

IsStart(e) == e.cb = "onToolStart"

\* Where the log of the batch in hand begins: at the onToolStart of its first call
BatchLogStart ==
    LET P == { p \in 1..Len(toolLog) :
                 /\ IsStart(toolLog[p])
                 /\ Len(SelectSeq(SubSeq(toolLog, p, Len(toolLog)), IsStart)) = Len(batch) }
    IN  IF P = {} THEN Len(toolLog) + 1 ELSE CHOOSE p \in P : TRUE

BatchLog == SubSeq(toolLog, BatchLogStart, Len(toolLog))

\* Every call of the batch has been started: onToolStart was called for it, in
\* the calls' order, and the executor of a declared tool has been invoked
AllStarted ==
    LET starts == SelectSeq(BatchLog, IsStart)
    IN  /\ Len(starts) = Len(batch)
        /\ \A i \in 1..Len(batch) :
              /\ starts[i].id = batch[i].id
              /\ starts[i].name = batch[i].name
              /\ Known(batch[i].name) => batch[i].executor # "absent"

\* No call was started after the outcome of an executor had been waited for:
\* an onToolEnd that precedes an onToolStart of the batch is that of a call
\* that had no executor to wait for
NoStartAfterWait ==
    \A p, q \in 1..Len(BatchLog) :
        (p < q /\ BatchLog[p].cb = "onToolEnd" /\ IsStart(BatchLog[q]))
            => BatchLog[p].result = ToolNotFound

C26_Inv ==
    /\ aPc = "executing" => AllStarted /\ NoStartAfterWait
    /\ (aPc = "requesting" /\ Len(sent) > 1) => AllStarted /\ NoStartAfterWait

C26_Step ==
    /\ sent' # sent =>
          /\ AllSettled(batch')
          /\ \A i \in 1..Len(batch') : batch'[i].executor # "pending"
    /\ (aPc' = "executing" /\ ~AllSettled(batch')) => sent' = sent

\* C26: when the loop begins to wait for a batch every call of it has been
\* started, whatever the state of its siblings' executors, so a call whose
\* executor stays pending holds up the start of none; and a request goes to
\* the provider only when every call of the batch has its outcome.
C26_BatchStartedTogether == []C26_Inv /\ [][C26_Step]_vars

\* C26 witness: of two calls the first is still pending long after the
\* timeout, while the second, started with it, has resolved; no request has
\* been sent meanwhile.
C26_Witness ==
    /\ aPc = "executing"
    /\ Len(batch) = 2
    /\ batch[1].executor = "pending"
    /\ batch[2].executor = "resolved"
    /\ elapsed > timeoutMs
    /\ Len(sent) = 1
    /\ Len(toolLog) = 3
    /\ toolLog[1].cb = "onToolStart"
    /\ toolLog[2].cb = "onToolStart"
    /\ toolLog[3].cb = "onToolEnd"

----------------------------------------------------------------------------
(* Claims about executeToolWithTimeout *)

\* The executor failed before the timer fired: it threw, or its promise was
\* rejected while the timer was still armed or unset
FailedBeforeTimeout ==
    \/ execution = "threw"
    \/ execution = "rejected" /\ settlement # Resolved(TimeoutResult)

\* C27: the promise executeToolWithTimeout returns is never rejected: once
\* settled it holds a ToolResult, and when the executor threw or rejected
\* before the timer fired that result is an error result whose text is
\* "Error: <message>".
C27_NeverRejects ==
    settlement # <<>> =>
        /\ settlement[1].kind = "resolved"
        /\ FailedBeforeTimeout =>
              /\ settlement[1].value.result \in {ErrorResult(e) : e \in Thrown}
              /\ "isError" \in DOMAIN settlement[1].value
              /\ settlement[1].value.isError

----------------------------------------------------------------------------
(* Claims about parseSSE: the end of input and comment lines *)

\* The body with a blank line appended: its last line is ended, if it was not,
\* and an empty line follows
WithBlankLine(d) == [d EXCEPT !.lines = Append(@, <<>>), !.closed = TRUE]

\* C28: the end of the input acts as a blank line: whatever the reads,
\* parseSSE has yielded at its end the events of the same body with a blank
\* line appended, so an unterminated last line and event lines that no blank
\* line closes give a last event.
C28_EndActsAsBlankLine == Finished("sse") => out = OneRead(WithBlankLine(doc))

\* C28 witness: a body of two events, the second a data: line that neither a
\* newline nor a blank line ends, cut inside a line: both were yielded.
C28_Witness ==
    /\ Finished("sse")
    /\ cut
    /\ ~doc.closed
    /\ Len(doc.lines) = 3
    /\ doc.lines[2] = <<>>
    /\ Len(out) = 2

IsComment(line) == line # <<>> /\ Head(line) = ":"
NotComment(line) == ~IsComment(line)

\* The body without its comment lines.  When the last line was a comment that
\* no line ending closed, the line before it keeps its own line ending.
WithoutComments(d) ==
    [d EXCEPT !.lines = SelectSeq(@, NotComment),
              !.closed = @ \/ (d.lines # <<>> /\ IsComment(Last(d.lines)))]

\* C29: comment lines have no part in the output: whatever the reads,
\* parseSSE has yielded at its end the events of the same body with every
\* comment line taken out, wherever the comments stood: between events,
\* between two data: lines of one event, or as a last line that nothing ends.
C29_CommentsIgnored == Finished("sse") => out = OneRead(WithoutComments(doc))

\* C29 witness: a comment between the two data: lines of one event: the
\* payloads on either side of it were joined and gave the event.
C29_Witness ==
    /\ Finished("sse")
    /\ cut
    /\ Len(doc.lines) = 3
    /\ IsData(doc.lines[1])
    /\ IsComment(doc.lines[2])
    /\ IsData(doc.lines[3])
    /\ Len(out) = 1
    /\ Len(parsedLog) = 1
    /\ \E k \in 1..Len(parsedLog[1]) : parsedLog[1][k] = LF

----------------------------------------------------------------------------
(* Claims about StreamProcessor: repeated done chunks *)

\* C30: between construction or a reset and the next reset, onToolCall is
\* called at most once for an id, also when several done chunks come or
\* fragments arrive after a done chunk.
C30_ReportedOncePerId ==
    \A i, j \in 1..Len(Reported) : Reported[i].id = Reported[j].id => i = j

----------------------------------------------------------------------------
(* Claims about mergeStreams: what becomes of the sources when it ends early *)

\* Source i was started and has not ended: its generator is suspended, at a
\* yield or inside the next() it was asked for, with its finally block not
\* run.  A source ends by reporting done or by throwing.
SourceOpen(i) == pending[i].st \in {"waiting", "value"}

\* C31: when mergeStreams has ended, by exhaustion, because the consumer
\* stopped or because a source failed, no source is left open: every source
\* has run its cleanup.
C31_SourcesClosedAtEnd ==
    mPc \in {"done", "returned", "failed"} => \A i \in Sources : ~SourceOpen(i)

----------------------------------------------------------------------------
(* Claims about FileSyncService *)

\* Nothing is under way and nothing is left to do
Quiescent ==
    /\ ~isSyncing
    /\ syncTimer # "armed"
    /\ pendingChanges = <<>>

\* No call of the write handler has failed
NoWriteFailed ==
    \A i \in 1..Len(syncEvents) :
        syncEvents[i].type = "sync-complete" => syncEvents[i].payload.success

C33_Inv ==
    /\ \A i \in 1..Len(syncEvents) :
          syncEvents[i].type = IF i % 2 = 1 THEN "sync-start" ELSE "sync-complete"
    /\ isSyncing <=> Len(syncEvents) % 2 = 1
    /\ isSyncing <=> syncRun # <<>>

\* In this step sync() is called, by the consumer or by the timer, during a sync
CalledDuringSync ==
    /\ isSyncing
    /\ \/ refusal' # refusal
       \/ syncTimer = "armed" /\ syncTimer' = "fired"

C33_Step ==
    /\ Len(syncEvents') > Len(syncEvents) /\ Last(syncEvents').type = "sync-complete"
          => ~isSyncing'
    /\ CalledDuringSync =>
          /\ refusal' = <<AlreadySyncing>>
          /\ ~refusal'[1].success
          /\ refusal'[1].errors = <<[path |-> "", error |-> "Sync already in progress"]>>
          /\ <<syncEvents', localFiles', remoteFiles', pendingChanges', isSyncing', syncRun'>>
                = <<syncEvents, localFiles, remoteFiles, pendingChanges, isSyncing, syncRun>>

\* C33: at most one sync runs at a time: sync-start and sync-complete events
\* alternate, beginning with sync-start; every sync that started completes and
\* leaves isSyncing false, also when a write handler rejected; and a sync()
\* call made during a sync returns success false with the error 'Sync already
\* in progress', emits nothing and changes none of the three maps.
C33_OneSyncAtATime ==
    /\ []C33_Inv
    /\ [][C33_Step]_vars
    /\ (isSyncing ~> ~isSyncing)

\* C33 witness: a sync whose write was rejected has completed with success
\* false, a call made while it ran was refused, and isSyncing is false again.
C33_Witness ==
    /\ Len(syncEvents) = 2
    /\ ~syncEvents[2].payload.success
    /\ syncEvents[2].payload.errors # <<>>
    /\ refusal = <<AlreadySyncing>>
    /\ ~isSyncing
    /\ pendingChanges # <<>>

----------------------------------------------------------------------------
(* Claims about CodeServerBridge *)

\* The messages sent so far, in send order
SentMessages == [i \in 1..Len(sendLog) |-> sendLog[i].message]

C34_Inv ==
    iframe # "detached" =>
        /\ posted \o messageQueue = SentMessages
        /\ ~isReady => posted = <<>>
        /\ isReady => messageQueue = <<>>
        /\ \A i, j \in 1..Len(posted) : i # j => posted[i] # posted[j]

C34_Step == IsPrefix(posted, posted')

\* C34: a bridge initialised with an iframe posts the messages in the order
\* they were sent, each at most once: what was posted, followed by what is
\* queued, is at every moment what was sent; nothing is posted before 'ready';
\* from 'ready' on nothing stays queued, the messages sent by a 'ready'
\* listener included; and what was posted is never taken back or reordered.
C34_PostedInSendOrder == []C34_Inv /\ [][C34_Step]_vars

\* C34 witness: a message sent before 'ready', one sent by the 'ready'
\* listener and one sent after 'ready' have all been posted.
C34_Witness ==
    /\ iframe = "window"
    /\ isReady
    /\ Len(posted) = 3
    /\ sendLog[1].by = "consumer"
    /\ sendLog[2].by = "listener"
    /\ sendLog[3].by = "consumer"
    /\ handled = 1

\* C35: a window message whose origin is not the editor's origin
\* http://<host>:<port> has no effect: the editor state, the ready flag, the
\* running status, the queue and what was posted stay as they are, and no
\* listener is called.
C35_ForeignOriginIgnored ==
    [][ (handled' = handled + 1 /\ lastOrigin' # expectedOrigin) =>
           UNCHANGED <<editorState, isReady, running, messageQueue, posted, called,
                       sendLog>> ]_vars

----------------------------------------------------------------------------
(* Specifications: one component runs, the others are idle *)

InitWire == WireInit /\ SPIdle /\ MergeIdle /\ AgentIdle /\ ExecIdle /\ SyncIdle /\ BridgeIdle

SpecWire == InitWire /\ [][WireNext]_vars

InitSP == SPInit /\ WireIdle /\ MergeIdle /\ AgentIdle /\ ExecIdle /\ SyncIdle /\ BridgeIdle

SpecSP == InitSP /\ [][SPNext]_vars

InitMerge == MergeInit /\ WireIdle /\ SPIdle /\ AgentIdle /\ ExecIdle /\ SyncIdle /\ BridgeIdle

\* Every source settles each next() it was asked for, and the consumer goes
\* on asking for items.
SpecMerge ==
    /\ InitMerge
    /\ [][MergeNext]_vars
    /\ WF_vars(MergeStart)
    /\ WF_vars(SourceSettle)
    /\ WF_vars(ConsumerNext)

InitAgent == AgentInit /\ WireIdle /\ SPIdle /\ MergeIdle /\ ExecIdle /\ SyncIdle /\ BridgeIdle

SpecAgent == InitAgent /\ [][AgentNext]_vars

SpecMergeEnd == InitMerge /\ [][MergeEndNext]_vars

InitExec ==
    ExecInit /\ WireIdle /\ SPIdle /\ MergeIdle /\ AgentIdle /\ SyncIdle /\ BridgeIdle

SpecExec == InitExec /\ [][ExecNext]_vars

InitSync ==
    SyncInit /\ WireIdle /\ SPIdle /\ MergeIdle /\ AgentIdle /\ ExecIdle /\ BridgeIdle

\* A write handler settles every call made to it.
SpecSync ==
    /\ InitSync
    /\ [][SyncNext]_vars
    /\ WF_vars(WriteResolves \/ WriteRejects)

InitBridge ==
    BridgeInit /\ WireIdle /\ SPIdle /\ MergeIdle /\ AgentIdle /\ ExecIdle /\ SyncIdle

SpecBridge == InitBridge /\ [][BridgeNext]_vars

====
